---- MODULE Spec2Model ----
(***************************************************************************)
(* Word Learner: the SM-2 scheduler (learn.js), the LearningSession, the   *)
(* notebook and CET progress stores, and the flashcard state machine of    *)
(* the REPL (repl.js).                                                     *)
(***************************************************************************)
EXTENDS Integers, Sequences, FiniteSets, TLC

(***************************************************************************)
(* Bounds of the model.                                                    *)
(***************************************************************************)
\* grades applied to one LearningState in the scheduler specification
MaxGrades == 6
\* largest interval of an arbitrary prior LearningState
MaxInterval == 7
\* grades applied to an arbitrary prior LearningState
MaxPriorGrades == 2
\* the clock stops advancing at MaxTime ticks
MaxTime == 1
\* cards of a session whose methods are called directly, every order of grades
MaxCards == 3
\* cards of the long sessions whose statistics are taken
LongCards == 40
\* grades stored by one run of the REPL
MaxReviews == 2
MaxTimers == 2

VARIABLES
    clock,             \* the wall clock (new Date()), in ticks
    notebook,          \* Notebook.words, in memory
    notebookFile,      \* notebook.json
    progress,          \* the <category>-progress.json files: category -> key -> state
    pendingSelection,  \* WordLearnerREPL.pendingSelection
    selectionData,     \* WordLearnerREPL.selectionData
    learningSession,   \* WordLearnerREPL.learningSession
    cetCategory,       \* WordLearnerREPL.cetCategory
    timers,            \* callbacks scheduled by setTimeout and not yet run, oldest first
    display,           \* the last screen rendered
    running,           \* FALSE once the process has ended
    sLearning,         \* scheduler runs: the LearningState held
    sPrior,            \* scheduler runs: the argument of the last calculateNextReview
    sGrades,           \* scheduler runs: the grades applied so far
    sOrigin,           \* scheduler runs: the LearningState the run started from
    out                \* the value returned by the last direct call of a function

replVars == << notebook, notebookFile, progress, pendingSelection, selectionData,
               learningSession, cetCategory, timers, display, running >>
schedVars == << sLearning, sPrior, sGrades, sOrigin >>
vars == << clock, replVars, schedVars, out >>

(***************************************************************************)
(* Program constants.                                                      *)
(***************************************************************************)
\* GRADES
FORGOT == 1
HARD == 2
GOOD == 3
EASY == 4
GradeSet == {FORGOT, HARD, GOOD, EASY}

\* 24 * 60 * 60 * 1000 ms, in clock ticks: one tick is one day
DAY == 1

\* JavaScript null; a timestamp t is <<t>>
null == <<>>
toISOString(t) == <<t>>
getTime(iso) == iso[1]

(***************************************************************************)
(* IEEE-754 doubles.  easeFactor is a JavaScript number that moves in      *)
(* steps of 0.2 and 0.15, none of which is a binary fraction, so every     *)
(* value carries a rounding error that decides Math.round at a tie.        *)
(* A double x is kept exactly as the pair (h, e) with                      *)
(*        x = h/100 + e/(25 * 2^55),   h, e integers,                      *)
(* i.e. 25 * 2^55 * x = h * 2^53 + e.  Sums and integer multiples of such  *)
(* pairs are taken componentwise and then rounded to the nearest double    *)
(* (ties to even), as the hardware does.                                   *)
(***************************************************************************)
Dbl(h, e) == [h |-> h, e |-> e]

RECURSIVE Pow2(_)
Pow2(n) == IF n = 0 THEN 1 ELSE 2 * Pow2(n - 1)

\* 2^n mod 25
RECURSIVE PowMod25(_)
PowMod25(n) == IF n = 0 THEN 1 ELSE (2 * PowMod25(n - 1)) % 25

\* (h, e) >= 2^j, for j >= -3
AtLeastPow2(h, e, j) ==
    IF j >= 0 THEN h > 100 * Pow2(j) \/ (h = 100 * Pow2(j) /\ e >= 0)
    ELSE IF j = -1 THEN h > 50 \/ (h = 50 /\ e >= 0)
    ELSE IF j = -2 THEN h > 25 \/ (h = 25 /\ e >= 0)
    ELSE h >= 13

\* the exponent j with 2^j <= (h, e) < 2^(j+1); values below 0.125 do not occur
RECURSIVE BinadeFrom(_, _, _)
BinadeFrom(h, e, j) ==
    IF AtLeastPow2(h, e, j + 1) THEN BinadeFrom(h, e, j + 1) ELSE j

Binade(h, e) == BinadeFrom(h, e, -3)

\* (h * 2^53 + e) mod (25 * 2^k): the distance, in units of 1/(25 * 2^55),
\* from the multiple of 2^k ulps just below (h, e)
Residue(h, e, k) ==
    (Pow2(k) * (((h % 25) * PowMod25(53 - k)) % 25) + e) % (25 * Pow2(k))

\* round to nearest double, ties to even; one ulp of binade j is 2^(j+3) units of 2^-55
FRound(h, e) ==
    LET k == Binade(h, e) + 3
        u == 25 * Pow2(k)
        r == Residue(h, e, k)
        down == Dbl(h, e - r)
        up == Dbl(h, e + u - r)
    IN  IF 2 * r < u THEN down
        ELSE IF 2 * r > u THEN up
        ELSE IF Residue(h, e, k + 1) < u THEN down ELSE up

\* the double denoted by a decimal literal with two places, e.g. 1.3 is Lit(130)
Lit(h) == FRound(h, 0)

FAdd(x, y) == FRound(x.h + y.h, x.e + y.e)
FSub(x, y) == FRound(x.h - y.h, x.e - y.e)
\* n * x for an integer-valued double n
FMulInt(n, x) == FRound(n * x.h, n * x.e)
FGeq(x, y) == x.h > y.h \/ (x.h = y.h /\ x.e >= y.e)
\* Math.max
FMax(x, y) == IF FGeq(x, y) THEN x ELSE y
\* Math.round of a double: nearest integer, ties towards +infinity
MathRound(x) ==
    LET q == x.h \div 100
        s == x.h % 100
    IN  IF s < 50 THEN q
        ELSE IF s > 50 THEN q + 1
        ELSE IF x.e >= 0 THEN q + 1 ELSE q

(***************************************************************************)
(* learn.js: the scheduler.                                                *)
(***************************************************************************)
DEFAULT_LEARNING ==
    [level |-> 0,
     easeFactor |-> Lit(250),
     interval |-> 0,
     lastReviewedAt |-> null,
     nextReviewAt |-> null,
     reviewCount |-> 0,
     correctCount |-> 0]

LEVEL_THRESHOLDS ==
    << [minInterval |-> 21, level |-> 5],
       [minInterval |-> 14, level |-> 4],
       [minInterval |-> 7, level |-> 3],
       [minInterval |-> 1, level |-> 2],
       [minInterval |-> 0, level |-> 1] >>

\* the loop of calculateLevel, from threshold i on
RECURSIVE LevelFrom(_, _)
LevelFrom(interval, i) ==
    IF i > Len(LEVEL_THRESHOLDS) THEN 0
    ELSE IF interval >= LEVEL_THRESHOLDS[i].minInterval
         THEN LEVEL_THRESHOLDS[i].level
         ELSE LevelFrom(interval, i + 1)

calculateLevel_NewAtZero(interval) ==
    IF interval = 0 THEN 0 ELSE LevelFrom(interval, 1)

calculateLevel_Strict(interval) ==
    IF interval > 21 THEN 5
    ELSE IF interval > 14 THEN 4
    ELSE IF interval > 7 THEN 3
    ELSE IF interval > 1 THEN 2
    ELSE IF interval > 0 THEN 1
    ELSE 0

calculateLevel(interval) == LevelFrom(interval, 1)

\* reviewCount++
NextReviewCount_NoInc(learning) == learning.reviewCount

NextReviewCount(learning) == learning.reviewCount + 1

NextCorrectCount_GoodOnly(learning, grade) ==
    IF grade >= GOOD THEN learning.correctCount + 1
    ELSE learning.correctCount

\* correctCount++ on a successful recall only
NextCorrectCount(learning, grade) ==
    IF grade = FORGOT THEN learning.correctCount
    ELSE learning.correctCount + 1

NextInterval_AdjustedEase(learning, grade) ==
    IF grade = FORGOT THEN 0
    ELSE IF learning.interval = 0 THEN 1
    ELSE IF learning.interval = 1 THEN 6
    ELSE MathRound(FMulInt(learning.interval,
                           IF grade = HARD
                           THEN FMax(Lit(130), FSub(learning.easeFactor, Lit(15)))
                           ELSE IF grade = EASY THEN FAdd(learning.easeFactor, Lit(15))
                           ELSE learning.easeFactor))

NextInterval_HardRepeats(learning, grade) ==
    IF grade = FORGOT THEN 0
    ELSE IF learning.interval = 0 THEN 1
    ELSE IF learning.interval = 1 THEN 6
    ELSE IF grade = HARD THEN learning.interval
    ELSE MathRound(FMulInt(learning.interval, learning.easeFactor))

NextInterval_KeepOnForgot(learning, grade) ==
    IF grade = FORGOT THEN learning.interval
    ELSE IF learning.interval = 0 THEN 1
    ELSE IF learning.interval = 1 THEN 6
    ELSE MathRound(FMulInt(learning.interval, learning.easeFactor))

NextInterval_NoSecond(learning, grade) ==
    IF grade = FORGOT THEN 0
    ELSE IF learning.interval = 0 THEN 1
    ELSE MathRound(FMulInt(learning.interval, learning.easeFactor))

\* the interval: 0 when forgotten, else 1, 6, round(interval * easeFactor)
NextInterval(learning, grade) ==
    IF grade = FORGOT THEN 0
    ELSE IF learning.interval = 0 THEN 1
    ELSE IF learning.interval = 1 THEN 6
    ELSE MathRound(FMulInt(learning.interval, learning.easeFactor))

NextEaseFactor_NoFloor(learning, grade) ==
    IF grade = FORGOT THEN FSub(learning.easeFactor, Lit(20))
    ELSE IF grade = HARD THEN FSub(learning.easeFactor, Lit(15))
    ELSE IF grade = EASY THEN FAdd(learning.easeFactor, Lit(15))
    ELSE learning.easeFactor

\* the ease factor: -0.2 when forgotten, -0.15 when hard (both floored at 1.3),
\* +0.15 when easy, unchanged when good
NextEaseFactor(learning, grade) ==
    IF grade = FORGOT THEN FMax(Lit(130), FSub(learning.easeFactor, Lit(20)))
    ELSE IF grade = HARD THEN FMax(Lit(130), FSub(learning.easeFactor, Lit(15)))
    ELSE IF grade = EASY THEN FAdd(learning.easeFactor, Lit(15))
    ELSE learning.easeFactor

calculateNextReview_LevelOfPrior(learning, grade, t) ==
    LET interval == NextInterval(learning, grade)
    IN  [level |-> calculateLevel(learning.interval),
         easeFactor |-> NextEaseFactor(learning, grade),
         interval |-> interval,
         lastReviewedAt |-> toISOString(t),
         nextReviewAt |-> toISOString(t + interval * DAY),
         reviewCount |-> NextReviewCount(learning),
         correctCount |-> NextCorrectCount(learning, grade)]

calculateNextReview_FromLastReview(learning, grade, t) ==
    LET interval == NextInterval(learning, grade)
        from == IF learning.lastReviewedAt = null THEN t
                ELSE getTime(learning.lastReviewedAt)
    IN  [level |-> calculateLevel(interval),
         easeFactor |-> NextEaseFactor(learning, grade),
         interval |-> interval,
         lastReviewedAt |-> toISOString(t),
         nextReviewAt |-> toISOString(from + interval * DAY),
         reviewCount |-> NextReviewCount(learning),
         correctCount |-> NextCorrectCount(learning, grade)]

calculateNextReview_NullWhenDueNow(learning, grade, t) ==
    LET interval == NextInterval(learning, grade)
    IN  [level |-> calculateLevel(interval),
         easeFactor |-> NextEaseFactor(learning, grade),
         interval |-> interval,
         lastReviewedAt |-> toISOString(t),
         nextReviewAt |-> IF interval = 0 THEN null ELSE toISOString(t + interval * DAY),
         reviewCount |-> NextReviewCount(learning),
         correctCount |-> NextCorrectCount(learning, grade)]

\* calculateNextReview(learning, grade), with now = t
calculateNextReview(learning, grade, t) ==
    LET interval == NextInterval(learning, grade)
    IN  [level |-> calculateLevel(interval),
         easeFactor |-> NextEaseFactor(learning, grade),
         interval |-> interval,
         lastReviewedAt |-> toISOString(t),
         nextReviewAt |-> toISOString(t + interval * DAY),
         reviewCount |-> NextReviewCount(learning),
         correctCount |-> NextCorrectCount(learning, grade)]

(***************************************************************************)
(* learn.js: class LearningSession.  An object reference is null or << o >>. *)
(* A word entry is [word, ref, learning]: ref = i > 0 says the entry is the  *)
(* object notebook[i] (its learning is read and written there), ref = 0    *)
(* says it is an object of its own.                                        *)
(***************************************************************************)
\* new LearningSession(words)
NewSession(words) ==
    [words |-> words, currentIndex |-> 0, results |-> << >>, revealed |-> FALSE]

totalWords(s) == Len(s.words)

\* this.words[this.currentIndex] || null
currentWord(s) ==
    IF s.currentIndex + 1 \in DOMAIN s.words
    THEN << s.words[s.currentIndex + 1] >>
    ELSE null

isComplete_Never(s) == s.currentIndex > Len(s.words)

isComplete(s) == s.currentIndex >= Len(s.words)

\* the number of results with a grade in the set G
RECURSIVE CountGrades(_, _)
CountGrades(results, G) ==
    IF results = << >> THEN 0
    ELSE (IF Head(results).grade \in G THEN 1 ELSE 0) + CountGrades(Tail(results), G)

progress_(s) ==
    [current |-> s.currentIndex + 1,
     total |-> Len(s.words),
     reviewed |-> Len(s.results),
     correct |-> CountGrades(s.results, {g \in GradeSet : g >= GOOD})]

reveal(s) == [s EXCEPT !.revealed = TRUE]

recordGrade_KeepRevealed(s, grade) ==
    [s EXCEPT !.results = Append(@, [word |-> currentWord(s)[1].word,
                                     grade |-> grade,
                                     wasRevealed |-> s.revealed]),
              !.currentIndex = @ + 1]

\* recordGrade(grade), for a session that has a current word
recordGrade(s, grade) ==
    [s EXCEPT !.results = Append(@, [word |-> currentWord(s)[1].word,
                                     grade |-> grade,
                                     wasRevealed |-> s.revealed]),
              !.currentIndex = @ + 1,
              !.revealed = FALSE]

\* 2^k mod n
RECURSIVE PowMod2(_, _)
PowMod2(k, n) == IF k = 0 THEN 1 % n ELSE (2 * PowMod2(k - 1, n)) % n

\* the least s >= 1 with c * 2^s >= n: c/n lies in [2^-s, 2^(1-s))
RECURSIVE ShiftFrom(_, _, _)
ShiftFrom(c, n, s) == IF c * Pow2(s) >= n THEN s ELSE ShiftFrom(c, n, s + 1)

\* the largest j with 2^j <= m + 1/2, for m >= 1
RECURSIVE Log2From(_, _)
Log2From(m, j) == IF Pow2(j + 1) <= m THEN Log2From(m, j + 1) ELSE j

\* Math.round((correct / n) * 100) on doubles, 0 < correct < n.  The quotient is
\* the double c/n + d/(n * 2^K) with K = 52 + s; its product with 100 is rounded
\* to a double again, which matters when 100c/n is exactly m + 1/2.
RoundPercent(c, n) ==
    LET s == ShiftFrom(c, n, 1)
        K == 52 + s
        rho == (c * PowMod2(K, n)) % n
        rho2 == (c * PowMod2(K, 2 * n)) % (2 * n)
        d == IF 2 * rho < n THEN 0 - rho
             ELSE IF 2 * rho > n THEN n - rho
             ELSE IF (rho2 - rho) \div n = 0 THEN 0 - rho ELSE n - rho
        m == (100 * c) \div n
        t == (100 * c) % n
    IN  IF 2 * t < n THEN m
        ELSE IF 2 * t > n THEN m + 1
        ELSE IF d >= 0 THEN m + 1
        ELSE IF m = 0
             THEN (IF 800 * (0 - d) <= n * Pow2(s) THEN 1 ELSE 0)
        ELSE IF 200 * (0 - d) <= n * Pow2(Log2From(m, 0) + s) THEN m + 1 ELSE m

\* percentage of getStats
Percentage(correct, n) ==
    IF n > 0
    THEN (IF correct = 0 THEN 0 ELSE IF correct = n THEN 100 ELSE RoundPercent(correct, n))
    ELSE 0

getStats(s) ==
    LET correct == CountGrades(s.results, {g \in GradeSet : g >= GOOD})
        needPractice == CountGrades(s.results, {g \in GradeSet : g < GOOD})
    IN  [reviewed |-> Len(s.results),
         correct |-> correct,
         needPractice |-> needPractice,
         percentage |-> Percentage(correct, Len(s.results))]

(***************************************************************************)
(* The word sources.                                                       *)
(***************************************************************************)
CATEGORIES == {"cet4", "cet6"}

\* the words the user has saved to the notebook, in the order saved
NotebookWords == << "apple", "Bank" >>
\* the extracted word lists <category>.json, sorted as extractWordList sorts them
\* (by lower-cased word; entries are not deduplicated, "dog" and "Dog" share a key)
WordList(category) ==
    IF category = "cet4" THEN << "bank", "cat" >> ELSE << "dog", "Dog" >>

\* String.prototype.toLowerCase on the words of the model
toLowerCase(w) == IF w = "Bank" THEN "bank" ELSE IF w = "Dog" THEN "dog" ELSE w

AllKeys == { toLowerCase(NotebookWords[i]) : i \in DOMAIN NotebookWords }
               \cup UNION { { toLowerCase(WordList(c)[i]) : i \in DOMAIN WordList(c) } :
                            c \in CATEGORIES }

\* maxNewWords = 10, the default of both getWordsForLearning
DefaultMaxNew == 10

\* Notebook.addWord: the entry of a word just saved
NewEntry(w) == [word |-> w, learning |-> DEFAULT_LEARNING]

\* getProgress when no progress file exists: { words: {} }
EmptyProgress == [k \in AllKeys |-> null]

\* the learning state of a word entry of a session
WordLearning(words, w) == IF w.ref > 0 THEN words[w.ref].learning ELSE w.learning

\* level === 0
IsNew(learning) == learning.level = 0

IsDue_Strict(learning, now) ==
    /\ learning.level # 0
    /\ learning.nextReviewAt # null
    /\ getTime(learning.nextReviewAt) < now

IsDue_Always(learning, now) == learning.level # 0 /\ learning.nextReviewAt # null

\* level !== 0, nextReviewAt set and new Date(nextReviewAt) <= now
IsDue(learning, now) ==
    /\ learning.level # 0
    /\ learning.nextReviewAt # null
    /\ getTime(learning.nextReviewAt) <= now

Slice_Uncapped(seq, n) == seq

\* Array.prototype.slice(0, n)
Slice(seq, n) == SubSeq(seq, 1, IF n < Len(seq) THEN n ELSE Len(seq))

Select_NewFirst(entries, learnings, maxNewWords, now) ==
    LET idx == [i \in 1..Len(entries) |-> i]
        due(i) == IsDue(learnings[i], now)
        new(i) == IsNew(learnings[i])
        dueWords == SelectSeq(idx, due)
        newWords == SelectSeq(idx, new)
        chosen == Slice(newWords, maxNewWords) \o dueWords
    IN  [i \in 1..Len(chosen) |-> entries[chosen[i]]]

\* the loop and the return of both getWordsForLearning: entries[i] has the
\* learning state learnings[i]; due words, then the first maxNewWords new words
Select(entries, learnings, maxNewWords, now) ==
    LET idx == [i \in 1..Len(entries) |-> i]
        due(i) == IsDue(learnings[i], now)
        new(i) == IsNew(learnings[i])
        dueWords == SelectSeq(idx, due)
        newWords == SelectSeq(idx, new)
        chosen == dueWords \o Slice(newWords, maxNewWords)
    IN  [i \in 1..Len(chosen) |-> entries[chosen[i]]]

\* Notebook.getWordsForLearning(maxNewWords): the entries are the notebook's objects
NotebookGetWordsForLearning(words, maxNewWords, now) ==
    Select([i \in 1..Len(words) |-> [word |-> words[i].word, ref |-> i,
                                     learning |-> DEFAULT_LEARNING]],
           [i \in 1..Len(words) |-> words[i].learning],
           maxNewWords, now)

\* progress.words[wordKey] || { ...DEFAULT_LEARNING }
ProgressLearning(prog, word) ==
    IF prog[toLowerCase(word)] # null THEN prog[toLowerCase(word)][1] ELSE DEFAULT_LEARNING

\* cet.js getWordsForLearning(category, maxNewWords): the entries are copies with
\* the learning state of the progress file attached
CETGetWordsForLearning(prog, category, maxNewWords, now) ==
    LET list == WordList(category)
        learnings == [i \in 1..Len(list) |-> ProgressLearning(prog[category], list[i])]
    IN  Select([i \in 1..Len(list) |-> [word |-> list[i], ref |-> 0,
                                        learning |-> learnings[i]]],
               learnings, maxNewWords, now)

\* Array.prototype.find by lower-cased word: the least matching index, 0 if none
FindWord(words, wordText) ==
    LET hits == { i \in 1..Len(words) : toLowerCase(words[i].word) = toLowerCase(wordText) }
    IN  IF hits = {} THEN 0 ELSE CHOOSE i \in hits : \A j \in hits : i <= j

(***************************************************************************)
(* repl.js.  The fields of a WordLearnerREPL and the files it writes are   *)
(* gathered in a record r; a handler is an operator from r to the r it     *)
(* leaves.  r.thrown says the handler ended by an exception.               *)
(***************************************************************************)
\* SelectionState
NONE == "null"
LEARN_MENU == "learn_menu"
FLASHCARD_FRONT == "flashcard_front"
FLASHCARD_BACK == "flashcard_back"
SESSION_COMPLETE == "session_complete"
CET_MENU == "cet_menu"
CET_FLASHCARD_FRONT == "cet_flashcard_front"
CET_FLASHCARD_BACK == "cet_flashcard_back"
CET_SESSION_COMPLETE == "cet_session_complete"

Screen(name, word) == [screen |-> name, word |-> word, stats |-> null]

Show(r, name, word) == [r EXCEPT !.display = Screen(name, word)]

Throw(r) == [r EXCEPT !.thrown = TRUE]

\* a line of advice printed under the screen shown, which stays as it is
Hint(r) == r

\* Notebook.save: writeFileSync, its failure caught
save(r, diskOk) == IF diskOk THEN [r EXCEPT !.notebookFile = r.notebook] ELSE r

\* Notebook.updateWordLearning(wordText, learningState)
updateWordLearning(r, wordText, learningState, diskOk) ==
    LET i == FindWord(r.notebook, wordText)
    IN  IF i > 0
        THEN save([r EXCEPT !.notebook[i].learning = learningState], diskOk)
        ELSE r

\* cet.js updateWordLearningState(category, word, state): getProgress throws on a
\* category that is none, writeFileSync may throw
updateWordLearningState(r, category, word, state, diskOk) ==
    IF category \notin CATEGORIES \/ ~diskOk THEN Throw(r)
    ELSE [r EXCEPT !.progress[category][toLowerCase(word)] = << state >>]

clearSelection(r) == [r EXCEPT !.pendingSelection = NONE, !.selectionData = null]

\* showCurrentFlashcard and showCETCurrentFlashcard, which differ in the states
\* they enter
showFlashcard(r, front, complete) ==
    IF r.learningSession = null THEN Throw(r)
    ELSE LET session == r.learningSession[1]
         IN  IF isComplete(session)
             THEN [r EXCEPT !.display = [screen |-> "complete", word |-> "",
                                         stats |-> << getStats(session) >>],
                            !.pendingSelection = complete]
             ELSE [Show(r, "front", currentWord(session)[1].word)
                      EXCEPT !.pendingSelection = front]

showCurrentFlashcard(r) == showFlashcard(r, FLASHCARD_FRONT, SESSION_COMPLETE)

showCETCurrentFlashcard(r) ==
    showFlashcard(r, CET_FLASHCARD_FRONT, CET_SESSION_COMPLETE)

\* handleLearn
handleLearn(r, now) ==
    IF Len(r.notebook) = 0 THEN Show(r, "no_words", "")
    ELSE [Show(r, "learn_menu", "")
             EXCEPT !.pendingSelection = LEARN_MENU,
                    !.selectionData =
                        << [wordsForLearning |->
                              NotebookGetWordsForLearning(r.notebook, DefaultMaxNew, now)] >>]

handleLearnMenuSelection_AlwaysStart(r, input) ==
    IF input = "s"
    THEN showCurrentFlashcard(
             [r EXCEPT !.learningSession =
                           << NewSession(r.selectionData[1].wordsForLearning) >>])
    ELSE IF input = "b" THEN clearSelection(r)
    ELSE Hint(r)

\* handleLearnMenuSelection
handleLearnMenuSelection(r, input) ==
    IF input = "s"
    THEN LET wordsForLearning == r.selectionData[1].wordsForLearning
         IN  IF Len(wordsForLearning) = 0
             THEN clearSelection(Show(r, "caught_up", ""))
             ELSE showCurrentFlashcard(
                      [r EXCEPT !.learningSession = << NewSession(wordsForLearning) >>])
    ELSE IF input = "b" THEN clearSelection(r)
    ELSE Hint(r)

\* handleCET, with the word lists extracted; showCETMenu
handleCET(r, category) ==
    [Show(r, "cet_menu", "")
        EXCEPT !.cetCategory = << category >>,
               !.pendingSelection = CET_MENU,
               !.selectionData = << [category |-> category] >>]

\* handleCETMenuSelection
handleCETMenuSelection(r, input, now) ==
    IF input = "s"
    THEN LET wordsForLearning ==
                 CETGetWordsForLearning(r.progress, r.selectionData[1].category,
                                        DefaultMaxNew, now)
         IN  IF Len(wordsForLearning) = 0
             THEN [clearSelection(Show(r, "caught_up", "")) EXCEPT !.cetCategory = null]
             ELSE showCETCurrentFlashcard(
                      [r EXCEPT !.learningSession = << NewSession(wordsForLearning) >>])
    ELSE IF input = "b" THEN [clearSelection(r) EXCEPT !.cetCategory = null]
    ELSE Hint(r)

\* handleFlashcardFrontSelection and handleCETFlashcardFrontSelection: the input
\* arrives trimmed, so the reveal key is the empty line
handleFront(r, input, back) ==
    IF input = "" /\ r.learningSession = null THEN Throw(r)
    ELSE IF input = ""
    THEN LET revealed == [r EXCEPT !.learningSession[1] = reveal(@)]
             word == currentWord(revealed.learningSession[1])
         IN  IF word = null THEN Throw(revealed)
             ELSE [Show(revealed, "back", word[1].word) EXCEPT !.pendingSelection = back]
    ELSE Hint(r)

handleFlashcardFrontSelection(r, input) == handleFront(r, input, FLASHCARD_BACK)

handleCETFlashcardFrontSelection(r, input) == handleFront(r, input, CET_FLASHCARD_BACK)

\* parseInt on the input lines of the model: NaN is null, a number n is << n >>
parseInt(input) ==
    CASE input = "1" -> << 1 >>
      [] input = "2" -> << 2 >>
      [] input = "3" -> << 3 >>
      [] input = "4" -> << 4 >>
      [] input = "5" -> << 5 >>
      [] input = "3x" -> << 3 >>
      [] OTHER -> null

\* grade >= GRADES.FORGOT && grade <= GRADES.EASY
IsGrade(grade) == grade # null /\ grade[1] >= FORGOT /\ grade[1] <= EASY

\* handleFlashcardBackSelection
handleFlashcardBackSelection(r, input, now, diskOk) ==
    LET session == r.learningSession[1]
        word == IF r.learningSession = null THEN null ELSE currentWord(session)
        grade == parseInt(input)
    IN  IF input = "e"
        THEN (IF word = null THEN Throw(r) ELSE Show(r, "examples", word[1].word))
        ELSE IF IsGrade(grade)
        THEN IF word = null THEN Throw(r)
             ELSE LET newLearning ==
                          calculateNextReview(WordLearning(r.notebook, word[1]),
                                              grade[1], now)
                      updated == updateWordLearning(r, word[1].word, newLearning, diskOk)
                  IN  [Show(updated, "feedback", word[1].word)
                          EXCEPT !.learningSession[1] = recordGrade(@, grade[1]),
                                 !.timers = Append(@, "showCurrentFlashcard")]
        ELSE Hint(r)

\* handleCETFlashcardBackSelection
handleCETFlashcardBackSelection(r, input, now, diskOk) ==
    LET session == r.learningSession[1]
        word == IF r.learningSession = null THEN null ELSE currentWord(session)
        grade == parseInt(input)
    IN  IF input = "e"
        THEN (IF word = null THEN Throw(r) ELSE Show(r, "examples", word[1].word))
        ELSE IF IsGrade(grade)
        THEN IF word = null THEN Throw(r)
             ELSE LET newLearning ==
                          calculateNextReview(WordLearning(r.notebook, word[1]),
                                              grade[1], now)
                      category == IF r.cetCategory = null THEN "" ELSE r.cetCategory[1]
                      updated == updateWordLearningState(r, category, word[1].word,
                                                         newLearning, diskOk)
                  IN  IF updated.thrown THEN updated
                      ELSE [Show(updated, "feedback", word[1].word)
                              EXCEPT !.learningSession[1] = recordGrade(@, grade[1]),
                                     !.timers = Append(@, "showCETCurrentFlashcard")]
        ELSE Hint(r)

\* handleSessionCompleteSelection
handleSessionCompleteSelection(r) ==
    clearSelection([r EXCEPT !.learningSession = null])

\* handleCETSessionCompleteSelection
handleCETSessionCompleteSelection(r) ==
    clearSelection([r EXCEPT !.learningSession = null, !.cetCategory = null])

\* the input lines of the model, trimmed and lower-cased
Commands == {"/learn", "/cet4", "/cet6", "/help", "/quit"}
Keys == {"", "3", "3x", "5", "e", "s", "b"}
Lines == Commands \cup Keys

\* handleInput with no pending selection: parseInput and executeCommand.  A line
\* that is no command starts a dictionary search, which the model leaves out.
executeCommand(r, input, now) ==
    CASE input = "/learn" -> handleLearn(r, now)
      [] input = "/cet4" -> handleCET(r, "cet4")
      [] input = "/cet6" -> handleCET(r, "cet6")
      [] input = "/quit" -> [r EXCEPT !.running = FALSE]
      [] OTHER -> Show(r, "help", "")

\* handleSelection
handleSelection(r, input, now, diskOk) ==
    IF input \in Commands THEN executeCommand(clearSelection(r), input, now)
    ELSE CASE r.pendingSelection = LEARN_MENU -> handleLearnMenuSelection(r, input)
           [] r.pendingSelection = FLASHCARD_FRONT -> handleFlashcardFrontSelection(r, input)
           [] r.pendingSelection = FLASHCARD_BACK ->
                  handleFlashcardBackSelection(r, input, now, diskOk)
           [] r.pendingSelection = SESSION_COMPLETE -> handleSessionCompleteSelection(r)
           [] r.pendingSelection = CET_MENU -> handleCETMenuSelection(r, input, now)
           [] r.pendingSelection = CET_FLASHCARD_FRONT ->
                  handleCETFlashcardFrontSelection(r, input)
           [] r.pendingSelection = CET_FLASHCARD_BACK ->
                  handleCETFlashcardBackSelection(r, input, now, diskOk)
           [] r.pendingSelection = CET_SESSION_COMPLETE ->
                  handleCETSessionCompleteSelection(r)

\* handleInput
handleInput(r, input, now, diskOk) ==
    IF r.pendingSelection # NONE THEN handleSelection(r, input, now, diskOk)
    ELSE IF input = "" THEN r
    ELSE executeCommand(r, input, now)

(***************************************************************************)
(* The state of a WordLearnerREPL after its constructor and start().       *)
(***************************************************************************)
NoDisplay == Screen("welcome", "")

\* the record of the REPL's fields
Repl ==
    [notebook |-> notebook, notebookFile |-> notebookFile, progress |-> progress,
     pendingSelection |-> pendingSelection, selectionData |-> selectionData,
     learningSession |-> learningSession, cetCategory |-> cetCategory,
     timers |-> timers, display |-> display, running |-> running, thrown |-> FALSE]

\* the REPL's fields become those of r
Becomes(r) ==
    /\ notebook' = r.notebook
    /\ notebookFile' = r.notebookFile
    /\ progress' = r.progress
    /\ pendingSelection' = r.pendingSelection
    /\ selectionData' = r.selectionData
    /\ learningSession' = r.learningSession
    /\ cetCategory' = r.cetCategory
    /\ timers' = r.timers
    /\ display' = r.display
    /\ running' = r.running

ReplInit ==
    /\ \E n \in {0, Len(NotebookWords)} :
          notebook = [i \in 1..n |-> NewEntry(NotebookWords[i])]
    /\ notebookFile = notebook
    /\ progress = [c \in CATEGORIES |-> EmptyProgress]
    /\ pendingSelection = NONE
    /\ selectionData = null
    /\ learningSession = null
    /\ cetCategory = null
    /\ timers = << >>
    /\ display = NoDisplay
    /\ running = TRUE

\* the REPL at rest, for the specifications that call functions directly
ReplIdle ==
    /\ notebook = << >>
    /\ notebookFile = << >>
    /\ progress = [c \in CATEGORIES |-> EmptyProgress]
    /\ pendingSelection = NONE
    /\ selectionData = null
    /\ learningSession = null
    /\ cetCategory = null
    /\ timers = << >>
    /\ display = NoDisplay
    /\ running = TRUE

SchedIdle ==
    /\ sLearning = DEFAULT_LEARNING
    /\ sPrior = null
    /\ sGrades = << >>
    /\ sOrigin = DEFAULT_LEARNING

(***************************************************************************)
(* The clock.                                                              *)
(***************************************************************************)
\* a tick is a day: the 800 ms of a pending callback end before it
Tick ==
    /\ running
    /\ timers = << >>
    /\ clock < MaxTime
    /\ clock' = clock + 1
    /\ UNCHANGED << replVars, schedVars, out >>

(***************************************************************************)
(* Scheduler runs: calculateNextReview applied grade after grade to one    *)
(* LearningState, starting from DEFAULT_LEARNING or from any prior state.  *)
(***************************************************************************)
\* prior states a caller may pass: any interval and ease factor
PriorEase == {130, 145, 210, 250, 265}
PriorStates ==
    { [level |-> l,
       easeFactor |-> Lit(h),
       interval |-> i,
       lastReviewedAt |-> toISOString(0),
       nextReviewAt |-> toISOString(i * DAY),
       reviewCount |-> 2,
       correctCount |-> c] :
        l \in {0, 5}, h \in PriorEase, i \in 0..MaxInterval, c \in {0, 2} }

Grade_InPlace(g) ==
    /\ Len(sGrades) < (IF sOrigin = DEFAULT_LEARNING THEN MaxGrades ELSE MaxPriorGrades)
    /\ sLearning' = calculateNextReview(sLearning, g, clock)
    /\ sPrior' = << sLearning' >>
    /\ sGrades' = Append(sGrades, g)
    /\ UNCHANGED << clock, replVars, sOrigin, out >>

Grade(g) ==
    /\ Len(sGrades) < (IF sOrigin = DEFAULT_LEARNING THEN MaxGrades ELSE MaxPriorGrades)
    /\ sPrior' = << sLearning >>
    /\ sLearning' = calculateNextReview(sLearning, g, clock)
    /\ sGrades' = Append(sGrades, g)
    /\ UNCHANGED << clock, replVars, sOrigin, out >>

SchedInit ==
    /\ clock = 0
    /\ ReplIdle
    /\ sLearning \in {DEFAULT_LEARNING} \cup PriorStates
    /\ sOrigin = sLearning
    /\ sPrior = null
    /\ sGrades = << >>
    /\ out = null

SchedNext ==
    \/ \E g \in GradeSet : Grade(g)
    \/ Tick

SchedSpec == SchedInit /\ [][SchedNext]_vars

FromDefault == sOrigin = DEFAULT_LEARNING
Called == sPrior # null
LastGrade == sGrades[Len(sGrades)]

\* C1: in every state reached from the default LearningState by any sequence of
\* grades, easeFactor is at least 1.3.
C1_EaseFloor ==
    FromDefault => FGeq(sLearning.easeFactor, Lit(130))

\* a Forgot grade whose subtraction of 0.2 would have gone below 1.3
C1_Witness ==
    /\ FromDefault /\ Called /\ LastGrade = FORGOT
    /\ ~FGeq(FSub(sPrior[1].easeFactor, Lit(20)), Lit(130))
    /\ sLearning.easeFactor = Lit(130)

\* C2: in every state reached from the default LearningState by any sequence of
\* grades, correctCount <= reviewCount.
C2_CorrectLeqReviewed ==
    FromDefault => sLearning.correctCount <= sLearning.reviewCount

\* successes and failures both counted
C2_Witness ==
    /\ FromDefault /\ Called
    /\ sLearning.correctCount = 2
    /\ sLearning.reviewCount = 4

\* the thresholds of the level, as the specification tabulates them
ThresholdLevel(interval) ==
    CASE interval >= 21 -> 5
      [] interval >= 14 /\ interval < 21 -> 4
      [] interval >= 7 /\ interval < 14 -> 3
      [] interval >= 1 /\ interval < 7 -> 2
      [] interval = 0 -> 1

\* C3: every state returned by calculateNextReview has the level its own interval
\* gives by the thresholds, whatever the prior state and its level.
C3_LevelFromInterval ==
    Called => sLearning.level = ThresholdLevel(sLearning.interval)

\* a returned level that differs from the level of the prior state
C3_Witness ==
    /\ Called
    /\ sLearning.interval >= 14 /\ sLearning.interval < 21
    /\ sLearning.level = 4
    /\ sPrior[1].level # 4

\* C4: calculateNextReview with grade Forgot returns interval 0 for every prior
\* state.
C4_ForgotResets ==
    (Called /\ LastGrade = FORGOT) => sLearning.interval = 0

\* Forgot applied to a state with a positive interval
C4_Witness ==
    /\ Called /\ LastGrade = FORGOT
    /\ sPrior[1].interval >= 6
    /\ sLearning.interval = 0

\* C5: from the default state, Good, Good, Good give intervals 1, 6, 15 and the
\* ease factor stays 2.5.
C5_ThreeGoods ==
    FromDefault =>
        /\ sGrades = << GOOD >> =>
              sLearning.interval = 1 /\ sLearning.easeFactor = Lit(250)
        /\ sGrades = << GOOD, GOOD >> =>
              sLearning.interval = 6 /\ sLearning.easeFactor = Lit(250)
        /\ sGrades = << GOOD, GOOD, GOOD >> =>
              sLearning.interval = 15 /\ sLearning.easeFactor = Lit(250)

C5_Witness ==
    /\ FromDefault
    /\ sGrades = << GOOD, GOOD, GOOD >>
    /\ sLearning.interval = 15
(***************************************************************************)
(* Session runs: the methods of a LearningSession called directly on a     *)
(* session built from any word list, and showCurrentFlashcard applied to   *)
(* it.                                                                     *)
(***************************************************************************)
CardNames == << "apple", "bank", "cat" >>

Entry(w) == [word |-> w, ref |-> 0, learning |-> DEFAULT_LEARNING]

\* a word list of n cards
CardList(n) == [i \in 1..n |-> Entry(CardNames[((i - 1) % Len(CardNames)) + 1])]

\* a session of LongCards cards at its end: a grades Good, then Forgot
LongSession(a) ==
    [words |-> [i \in 1..LongCards |-> Entry("apple")],
     currentIndex |-> LongCards,
     results |-> [i \in 1..LongCards |->
                    [word |-> "apple",
                     grade |-> IF i <= a THEN GOOD ELSE FORGOT,
                     wasRevealed |-> TRUE]],
     revealed |-> FALSE]

SessInit ==
    /\ clock = 0
    /\ notebook = << >>
    /\ notebookFile = << >>
    /\ progress = [c \in CATEGORIES |-> EmptyProgress]
    /\ pendingSelection = NONE
    /\ selectionData = null
    /\ learningSession \in { << NewSession(CardList(n)) >> : n \in 0..MaxCards }
                             \cup { << LongSession(a) >> : a \in 0..LongCards }
    /\ cetCategory = null
    /\ timers = << >>
    /\ display = NoDisplay
    /\ running = TRUE
    /\ SchedIdle
    /\ out = null

SessReveal ==
    /\ learningSession' = << reveal(learningSession[1]) >>
    /\ UNCHANGED << clock, notebook, notebookFile, progress, pendingSelection,
                    selectionData, cetCategory, timers, display, running, schedVars, out >>

SessRecordGrade(grade) ==
    /\ currentWord(learningSession[1]) # null
    /\ learningSession' = << recordGrade(learningSession[1], grade) >>
    /\ UNCHANGED << clock, notebook, notebookFile, progress, pendingSelection,
                    selectionData, cetCategory, timers, display, running, schedVars, out >>

\* getStats() called: out keeps the results it was called on and its value
SessGetStats ==
    /\ out' = << [results |-> learningSession[1].results,
                  value |-> getStats(learningSession[1])] >>
    /\ UNCHANGED << clock, replVars, schedVars >>

SessShow ==
    /\ Becomes(showCurrentFlashcard(Repl))
    /\ UNCHANGED << clock, schedVars, out >>

SessNext ==
    \/ SessReveal
    \/ \E g \in GradeSet : SessRecordGrade(g)
    \/ SessGetStats
    \/ SessShow

SessionSpec == SessInit /\ [][SessNext]_vars

\* the grades of a list of results
GradesOf(results) == [i \in DOMAIN results |-> results[i].grade]

\* C6: a session over an empty word list is complete from construction on,
\* whatever is revealed, and showCurrentFlashcard takes it to SESSION_COMPLETE
\* and the completion screen: no card is ever displayed for it.
C6_EmptySessionComplete ==
    (learningSession # null /\ Len(learningSession[1].words) = 0)
        => /\ isComplete(learningSession[1])
           /\ currentWord(learningSession[1]) = null
           /\ pendingSelection \in {NONE, SESSION_COMPLETE}
           /\ display.screen \in {"welcome", "complete"}
           /\ (pendingSelection = NONE) <=> (display.screen = "welcome")

C6_Witness ==
    /\ learningSession # null
    /\ Len(learningSession[1].words) = 0
    /\ learningSession[1].revealed
    /\ pendingSelection = SESSION_COMPLETE
    /\ display.screen = "complete"

\* the integer nearest to 100 * correct / reviewed, halves upwards
NearestPercent(correct, reviewed) == (200 * correct + reviewed) \div (2 * reviewed)

\* C8 as the specification has it: getStats returns the number of results, the
\* number graded Good or Easy, the number graded Forgot or Hard, and
\* round(100 * correct / reviewed) (0 for no results); it leaves the session
\* as it is.
C8_StatsAsSpecified ==
    out # null =>
        LET results == out[1].results
            value == out[1].value
            correct == Cardinality({i \in DOMAIN results : results[i].grade \in {GOOD, EASY}})
            needPractice == Cardinality({i \in DOMAIN results : results[i].grade \in {FORGOT, HARD}})
        IN  /\ value.reviewed = Len(results)
            /\ value.correct = correct
            /\ value.needPractice = needPractice
            /\ value.percentage = IF Len(results) = 0 THEN 0
                                  ELSE NearestPercent(correct, Len(results))

\* C8 but for the percentage, which holds of the code
C8_Counts ==
    out # null =>
        LET results == out[1].results
            value == out[1].value
        IN  /\ value.reviewed = Len(results)
            /\ value.correct =
                  Cardinality({i \in DOMAIN results : results[i].grade \in {GOOD, EASY}})
            /\ value.needPractice =
                  Cardinality({i \in DOMAIN results : results[i].grade \in {FORGOT, HARD}})
            /\ value.correct + value.needPractice = value.reviewed
            /\ (GradesOf(results) = << GOOD, EASY, FORGOT >>) =>
                  value = [reviewed |-> 3, correct |-> 2, needPractice |-> 1,
                           percentage |-> 67]
            /\ learningSession[1].results = results =>
                  value = getStats(learningSession[1])

\* 23 of 40 correct: 57.5 per cent, shown as 57
C8_FailingInput ==
    /\ out # null
    /\ Len(out[1].results) = 40
    /\ out[1].value.correct = 23
    /\ out[1].value.percentage = 57

(***************************************************************************)
(* Selection runs: both getWordsForLearning called directly on a store.    *)
(***************************************************************************)
MaxSel == 3
MaxCap == 2

SelNames == << "w01", "w02", "w03", "w04", "w05", "w06", "w07", "w08", "w09", "w10", "w11", "w12", "w13", "w14", "w15", "w16", "w17", "w18", "w19", "w20", "w21", "w22", "w23" >>

\* the learning states of a word never reviewed, of one reviewed at time 0 and
\* due again at DAY, and of one reviewed at time 0 and due long after
SelStates == { DEFAULT_LEARNING,
               calculateNextReview(DEFAULT_LEARNING, FORGOT, 0),
               calculateNextReview(DEFAULT_LEARNING, EASY, 0) }

\* 23 saved words: the 2nd, 9th and 23rd reviewed and due at DAY, the others new
BigNotebook ==
    [i \in 1..23 |->
        [word |-> SelNames[i],
         learning |-> IF i \in {2, 9, 23}
                      THEN calculateNextReview(DEFAULT_LEARNING, FORGOT, 0)
                      ELSE DEFAULT_LEARNING]]

SelNotebooks ==
    UNION { { [i \in 1..n |-> [word |-> SelNames[i], learning |-> f[i]]] :
                f \in [1..n -> SelStates] } : n \in 0..MaxSel }
        \cup { BigNotebook }

\* the progress file of a category: any word of its list without a state or
\* with one
SelProgress(category) ==
    { p \in [AllKeys -> {null} \cup { << l >> : l \in SelStates \ {DEFAULT_LEARNING} }] :
        \A k \in AllKeys :
            p[k] # null =>
                \E i \in DOMAIN WordList(category) : toLowerCase(WordList(category)[i]) = k }

SelInit ==
    /\ clock \in 0..MaxTime
    /\ \/ notebook \in SelNotebooks /\ progress = [c \in CATEGORIES |-> EmptyProgress]
       \/ notebook = << >> /\ progress \in [cet4 : SelProgress("cet4"), cet6 : SelProgress("cet6")]
    /\ notebookFile = notebook
    /\ pendingSelection = NONE
    /\ selectionData = null
    /\ learningSession = null
    /\ cetCategory = null
    /\ timers = << >>
    /\ display = NoDisplay
    /\ running = TRUE
    /\ SchedIdle
    /\ out = null

\* notebook.getWordsForLearning(maxNewWords) called
SelNotebook(maxNewWords) ==
    /\ out' = << [source |-> "notebook", maxNewWords |-> maxNewWords,
                  value |-> NotebookGetWordsForLearning(notebook, maxNewWords, clock)] >>
    /\ UNCHANGED << clock, replVars, schedVars >>

\* getWordsForLearning(category, maxNewWords) of cet.js called
SelCET(category, maxNewWords) ==
    /\ out' = << [source |-> category, maxNewWords |-> maxNewWords,
                  value |-> CETGetWordsForLearning(progress, category, maxNewWords, clock)] >>
    /\ UNCHANGED << clock, replVars, schedVars >>

SelNext ==
    \/ \E m \in 0..MaxCap \cup {DefaultMaxNew} : SelNotebook(m)
    \/ \E c \in CATEGORIES, m \in 0..MaxCap \cup {DefaultMaxNew} : SelCET(c, m)

SelectSpec == SelInit /\ [][SelNext]_vars

\* the k-th least member of a set of numbers
Kth(S, k) == CHOOSE i \in S : Cardinality({ j \in S : j < i }) = k - 1

Min(a, b) == IF a < b THEN a ELSE b

\* the learning states, in collection order, of the store out was selected from
SourceLearnings ==
    IF out[1].source = "notebook"
    THEN [i \in 1..Len(notebook) |-> notebook[i].learning]
    ELSE [i \in 1..Len(WordList(out[1].source)) |->
            LET k == toLowerCase(WordList(out[1].source)[i])
            IN  IF progress[out[1].source][k] = null THEN DEFAULT_LEARNING
                ELSE progress[out[1].source][k][1]]

SourceWords ==
    IF out[1].source = "notebook"
    THEN [i \in 1..Len(notebook) |-> notebook[i].word]
    ELSE WordList(out[1].source)

DueIndexes ==
    { i \in DOMAIN SourceLearnings :
        /\ SourceLearnings[i].level # 0
        /\ SourceLearnings[i].nextReviewAt # null
        /\ SourceLearnings[i].nextReviewAt[1] <= clock }

NewIndexes == { i \in DOMAIN SourceLearnings : SourceLearnings[i].level = 0 }

\* C7: getWordsForLearning of the notebook and of a CET list returns every due
\* word in collection order, then the first min(maxNewWords, number of new
\* words) new words in collection order; 3 due and 20 new words under the cap
\* 10 give 13 words.
C7_DueThenCappedNew ==
    out # null =>
        LET value == out[1].value
            nDue == Cardinality(DueIndexes)
            nNew == Min(out[1].maxNewWords, Cardinality(NewIndexes))
            index(k) == IF k <= nDue THEN Kth(DueIndexes, k) ELSE Kth(NewIndexes, k - nDue)
        IN  /\ Len(value) = nDue + nNew
            /\ \A k \in 1..Len(value) :
                  /\ value[k].word = SourceWords[index(k)]
                  /\ IF out[1].source = "notebook"
                     THEN value[k].ref = index(k)
                     ELSE value[k].learning = SourceLearnings[index(k)]
            /\ (nDue = 3 /\ Cardinality(NewIndexes) = 20 /\ out[1].maxNewWords = 10)
                  => Len(value) = 13

C7_Witness ==
    /\ out # null
    /\ out[1].source = "notebook"
    /\ out[1].maxNewWords = DefaultMaxNew
    /\ Cardinality(DueIndexes) = 3
    /\ Cardinality(NewIndexes) = 20
    /\ Len(out[1].value) = 13
    /\ out[1].value[3].word = "w23"
    /\ out[1].value[4].word = "w01"

(***************************************************************************)
(* The REPL: input lines, Ctrl-C, the callbacks of setTimeout, the clock.  *)
(***************************************************************************)
RECURSIVE SumReviews(_)
SumReviews(learnings) ==
    IF learnings = << >> THEN 0
    ELSE Head(learnings).reviewCount + SumReviews(Tail(learnings))

RECURSIVE SumProgress(_, _)
SumProgress(prog, keys) ==
    IF keys = {} THEN 0
    ELSE LET k == CHOOSE x \in keys : TRUE
         IN  (IF prog[k] = null THEN 0 ELSE prog[k][1].reviewCount)
                 + SumProgress(prog, keys \ {k})

\* the reviews stored so far
TotalReviews ==
    SumReviews([i \in 1..Len(notebook) |-> notebook[i].learning])
        + SumProgress(progress["cet4"], AllKeys) + SumProgress(progress["cet6"], AllKeys)

BackStates == {FLASHCARD_BACK, CET_FLASHCARD_BACK}
FrontStates == {FLASHCARD_FRONT, CET_FLASHCARD_FRONT}
CompleteStates == {SESSION_COMPLETE, CET_SESSION_COMPLETE}

\* rl.on('line'): one input line, trimmed and lower-cased by the handlers.  An
\* exception leaves the handler's promise rejected, which ends the process or
\* not (fatal) with the version of the runtime.
Line(input, diskOk, fatal) ==
    /\ running
    /\ pendingSelection # NONE \/ input \in Commands \cup {""}
    /\ (pendingSelection \in BackStates /\ IsGrade(parseInt(input)))
          => (TotalReviews < MaxReviews /\ Len(timers) < MaxTimers)
    /\ diskOk \/ (pendingSelection \in BackStates /\ IsGrade(parseInt(input)))
    /\ ~fatal \/ handleInput(Repl, input, clock, diskOk).thrown
    /\ LET r == handleInput(Repl, input, clock, diskOk)
       IN  Becomes(IF r.thrown THEN [r EXCEPT !.running = ~fatal] ELSE r)
    /\ UNCHANGED << clock, schedVars, out >>

\* rl.on('SIGINT')
Sigint ==
    /\ running
    /\ Becomes(IF pendingSelection # NONE THEN clearSelection(Repl)
               ELSE [Repl EXCEPT !.running = FALSE])
    /\ UNCHANGED << clock, schedVars, out >>

\* the callback of the oldest setTimeout runs; an exception in it is uncaught
\* and ends the process
TimerFire ==
    /\ running
    /\ timers # << >>
    /\ LET r0 == [Repl EXCEPT !.timers = Tail(@)]
           r == IF Head(timers) = "showCurrentFlashcard"
                THEN showCurrentFlashcard(r0)
                ELSE showCETCurrentFlashcard(r0)
       IN  Becomes(IF r.thrown THEN [r EXCEPT !.running = FALSE] ELSE r)
    /\ UNCHANGED << clock, schedVars, out >>

Init ==
    /\ clock = 0
    /\ ReplInit
    /\ SchedIdle
    /\ out = null

Next ==
    \/ \E input \in Lines, diskOk \in BOOLEAN, fatal \in BOOLEAN :
          Line(input, diskOk, fatal)
    \/ Sigint
    \/ TimerFire
    \/ Tick

Spec == Init /\ [][Next]_vars

\* the category whose list a word of a CET session comes from
OwnerCategory(word) ==
    CHOOSE c \in CATEGORIES : \E i \in DOMAIN WordList(c) : WordList(c)[i] = word

\* a step in which the session accepts a grade: recordGrade appends a result
GradeAccepted ==
    /\ learningSession # null
    /\ learningSession' # null
    /\ learningSession'[1].words = learningSession[1].words
    /\ Len(learningSession'[1].results) = Len(learningSession[1].results) + 1

\* C9: every accepted grade writes calculateNextReview(stored state of the graded
\* word, grade) to the store the session's words come from, under the key of
\* the graded word, and changes no other stored state; so a session abandoned
\* after k grades has updated the k graded words and nothing else.
C9_WriteThrough ==
    [][GradeAccepted =>
         LET s == learningSession[1]
             w == s.words[s.currentIndex + 1]
             g == learningSession'[1].results[Len(s.results) + 1].grade
         IN  IF w.ref > 0
             THEN /\ notebook' = [notebook EXCEPT ![w.ref].learning =
                                     calculateNextReview(@, g, clock)]
                  /\ progress' = progress
             ELSE LET c == OwnerCategory(w.word)
                      prior == ProgressLearning(progress[c], w.word)
                  IN  /\ progress' = [progress EXCEPT ![c][toLowerCase(w.word)] =
                                         << calculateNextReview(prior, g, clock) >>]
                      /\ notebook' = notebook]_vars

\* C10: a grade is accepted for a card only after the back of that card was
\* shown by a reveal: every entry of results has wasRevealed = true, and a
\* flashcard-back state is entered only from the front state of its flow.
C10_GradeOnlyAfterReveal ==
    learningSession # null =>
        \A i \in DOMAIN learningSession[1].results :
            learningSession[1].results[i].wasRevealed

\* C10, the transitions: the back of a card is entered from its front only
C10_BackFromFront ==
    [][(pendingSelection' \in BackStates /\ pendingSelection' # pendingSelection)
          => \/ pendingSelection = FLASHCARD_FRONT /\ pendingSelection' = FLASHCARD_BACK
             \/ pendingSelection = CET_FLASHCARD_FRONT
                  /\ pendingSelection' = CET_FLASHCARD_BACK]_vars

FlashcardStates == FrontStates \cup BackStates

\* the input lines that are not the reveal key, not one of 1, 2, 3, 4, not the
\* show-examples key and not a slash command
Unrecognised == Lines \ (Commands \cup {"", "e", "1", "2", "3", "4"})

\* the session, the state of the REPL and the stores stay as they are
SessionAndStoresUnchanged ==
    UNCHANGED << pendingSelection, learningSession, notebook, notebookFile, progress,
                 timers, running >>

\* C11: in a flashcard-front or flashcard-back state of either flow an input
\* line that is not the reveal key, not exactly 1, 2, 3 or 4, not the
\* show-examples key and not a slash command changes nothing: pendingSelection,
\* the session (cursor, revealed, results) and the stores stay as they are and
\* the handler does not throw.
C11_UnrecognisedIsNoOp ==
    [][\A input \in Unrecognised, diskOk \in BOOLEAN, fatal \in BOOLEAN :
          (pendingSelection \in FlashcardStates /\ Line(input, diskOk, fatal))
              => (SessionAndStoresUnchanged
                    /\ ~handleInput(Repl, input, clock, diskOk).thrown)]_vars

\* C11 for the lines in which parseInt finds no number from 1 to 4
C11_NoNumberIsNoOp ==
    [][\A input \in { i \in Unrecognised : ~IsGrade(parseInt(i)) },
          diskOk \in BOOLEAN, fatal \in BOOLEAN :
          (pendingSelection \in FlashcardStates /\ Line(input, diskOk, fatal))
              => (SessionAndStoresUnchanged
                    /\ ~handleInput(Repl, input, clock, diskOk).thrown)]_vars

\* the input lines the back handlers take as a grade
GradeLines == { i \in Lines \ Commands : IsGrade(parseInt(i)) }

\* C12: when the write of the new learning state fails while a grade is
\* processed, in the notebook flow and in the CET flow, the grade is still
\* appended to results, the cursor advances by one and no exception leaves the
\* input handler.
C12_GradeSurvivesWriteFailure ==
    [][\A input \in GradeLines, fatal \in BOOLEAN :
          (/\ pendingSelection \in BackStates
           /\ learningSession # null
           /\ currentWord(learningSession[1]) # null
           /\ Line(input, FALSE, fatal))
              => (/\ GradeAccepted
                  /\ learningSession'[1].currentIndex = learningSession[1].currentIndex + 1
                  /\ ~handleInput(Repl, input, clock, FALSE).thrown)]_vars

\* C12 in the handler of the notebook flow, where Notebook.save catches the
\* failure
C12_NotebookGradeSurvives ==
    [][\A input \in GradeLines, fatal \in BOOLEAN :
          (/\ pendingSelection = FLASHCARD_BACK
           /\ learningSession # null
           /\ currentWord(learningSession[1]) # null
           /\ Line(input, FALSE, fatal))
              => (/\ GradeAccepted
                  /\ learningSession'[1].currentIndex = learningSession[1].currentIndex + 1
                  /\ ~handleInput(Repl, input, clock, FALSE).thrown)]_vars

\* the screens that show the back of a card
BackScreens == {"back", "examples"}

\* C13: the delay after a grade is pacing only: a line that arrives before the
\* delayed callback has run is never applied as a grade to the next card, which
\* is not yet displayed.  Every accepted grade is given with no callback
\* pending, to the card whose back is on the screen.
C13_NoGradeDuringDelay ==
    [][GradeAccepted =>
          /\ timers = << >>
          /\ display.screen \in BackScreens
          /\ display.word =
                learningSession[1].words[learningSession[1].currentIndex + 1].word]_vars

SessionStates == FlashcardStates \cup CompleteStates

\* C14: in a flashcard state the session has a current word (currentIndex <
\* words.length); a session whose cursor has reached the end of its words is
\* in a session-complete state only.
C14_CursorInRange ==
    pendingSelection \in FlashcardStates =>
        /\ learningSession # null
        /\ learningSession[1].currentIndex < Len(learningSession[1].words)
        /\ currentWord(learningSession[1]) # null

\* C15: the session object exists only while the REPL is in a flashcard or
\* session-complete state: it is discarded on completion and on abandonment.
C15_SessionOnlyInSessionStates ==
    learningSession # null => pendingSelection \in SessionStates

\* C15 for completion: any input in a session-complete state discards the
\* session
C15_DiscardedOnComplete ==
    [][(pendingSelection \in CompleteStates /\ pendingSelection' # pendingSelection
          /\ \E input \in Lines \ Commands : Line(input, TRUE, FALSE))
          => (learningSession' = null /\ pendingSelection' = NONE)]_vars

\* a step in which the user starts a session: 's' in a menu
StartInput ==
    /\ pendingSelection \in {LEARN_MENU, CET_MENU}
    /\ Line("s", TRUE, FALSE)

\* C16: after the user has left a session (slash command or Ctrl-C) the REPL
\* shows no further card of it and returns to no flashcard or
\* session-complete state, unless the user starts a new session: a session
\* state is entered from outside only by the start input.
C16_SessionStateOnlyByStart ==
    [][(pendingSelection \notin SessionStates /\ pendingSelection' \in SessionStates)
          => StartInput]_vars

\* C17: the queue of a session is the selection computed from the store and
\* the clock at the start input, in the notebook flow and in the CET flow;
\* if that selection is empty no session starts.
C17_FreshSelectionAtStart ==
    [][StartInput =>
          LET fresh == IF pendingSelection = LEARN_MENU
                       THEN NotebookGetWordsForLearning(notebook, DefaultMaxNew, clock)
                       ELSE CETGetWordsForLearning(progress, selectionData[1].category,
                                                   DefaultMaxNew, clock)
          IN  IF Len(fresh) = 0
              THEN pendingSelection' = NONE /\ learningSession' = learningSession
              ELSE learningSession' = << NewSession(fresh) >>]_vars

\* C17 in the CET flow, which selects at the start input
C17_CETFreshSelection ==
    [][(StartInput /\ pendingSelection = CET_MENU) =>
          LET fresh == CETGetWordsForLearning(progress, selectionData[1].category,
                                              DefaultMaxNew, clock)
          IN  IF Len(fresh) = 0
              THEN pendingSelection' = NONE /\ learningSession' = learningSession
              ELSE learningSession' = << NewSession(fresh) >>]_vars

\* the places in the store of the words selected
SelectedIndexes ==
    { IF out[1].source = "notebook" THEN out[1].value[k].ref
      ELSE CHOOSE i \in DOMAIN SourceWords : SourceWords[i] = out[1].value[k].word :
        k \in DOMAIN out[1].value }

\* level > 0 and nextReviewAt later than now
NotYetDue(learning) ==
    /\ learning.level > 0
    /\ learning.nextReviewAt # null
    /\ learning.nextReviewAt[1] > clock

\* C18: every word getWordsForLearning returns, from the notebook or from a
\* CET list, is new (level 0) or due (level > 0 and nextReviewAt <= now); a word
\* of level > 0 that is not yet due is never returned, and every due word is.
C18_NewOrDueOnly ==
    out # null =>
        /\ Cardinality(SelectedIndexes) = Len(out[1].value)
        /\ \A i \in SelectedIndexes :
              \/ SourceLearnings[i].level = 0
              \/ /\ SourceLearnings[i].level > 0
                 /\ SourceLearnings[i].nextReviewAt # null
                 /\ SourceLearnings[i].nextReviewAt[1] <= clock
        /\ \A i \in DOMAIN SourceLearnings :
              NotYetDue(SourceLearnings[i]) => i \notin SelectedIndexes
        /\ DueIndexes \subseteq SelectedIndexes

C18_Witness ==
    /\ out # null
    /\ \E i \in DOMAIN SourceLearnings :
          NotYetDue(SourceLearnings[i]) /\ i \notin SelectedIndexes
    /\ \E i \in DueIndexes : i \in SelectedIndexes
    /\ \E i \in NewIndexes : i \in SelectedIndexes

\* C19: when there is nothing to learn, an empty notebook at /learn or an empty
\* selection at the start input of either flow, no session is created and the
\* REPL enters no flashcard or session-complete state: it shows a message and
\* is back at the idle prompt.
C19_NoSessionOnEmptySelection ==
    [][/\ (Len(notebook) = 0 /\ Line("/learn", TRUE, FALSE))
            => /\ pendingSelection' = NONE
               /\ learningSession' = learningSession
               /\ display'.screen = "no_words"
       /\ (/\ StartInput
           /\ Len(IF pendingSelection = LEARN_MENU
                  THEN NotebookGetWordsForLearning(notebook, DefaultMaxNew, clock)
                  ELSE CETGetWordsForLearning(progress, selectionData[1].category,
                                              DefaultMaxNew, clock)) = 0)
            => /\ pendingSelection' = NONE
               /\ learningSession' = learningSession
               /\ display'.screen = "caught_up"]_vars

C19_Witness ==
    /\ display.screen = "caught_up"
    /\ pendingSelection = NONE
    /\ Len(notebook) > 0
    /\ NotebookGetWordsForLearning(notebook, DefaultMaxNew, clock) = << >>

(***************************************************************************)
(* Load runs: a stored learning state, as found in notebook.json or in a   *)
(* progress file, read for use, one in a run.  A stored state is null when *)
(* the word has none, else << l >> with l the fields the file has for it.  *)
(***************************************************************************)
Fields == { "level", "easeFactor", "interval", "lastReviewedAt", "nextReviewAt",
            "reviewCount", "correctCount" }

\* a learning state with the fields F only
Restrict(l, F) == [f \in F |-> l[f]]

StoredStates ==
    {null} \cup { << Restrict(l, F) >> : l \in SelStates, F \in SUBSET Fields }

\* Notebook.ensureLearningFields(entry), as migrateWords: !entry.learning
ensureLearningFields(entry) ==
    IF entry.learning = null THEN [entry EXCEPT !.learning = << DEFAULT_LEARNING >>]
    ELSE entry

LoadInit ==
    /\ clock = 0
    /\ notebook = << >>
    /\ notebookFile = << >>
    /\ progress = [c \in CATEGORIES |-> EmptyProgress]
    /\ pendingSelection = NONE
    /\ selectionData = null
    /\ learningSession = null
    /\ cetCategory = null
    /\ timers = << >>
    /\ display = NoDisplay
    /\ running = TRUE
    /\ SchedIdle
    /\ out = null

\* new Notebook() on a notebook.json that has one word with the state stored,
\* then the state that getWordsForLearning, getLearningStats and the grade
\* handler read for it
LoadNotebook(stored) ==
    /\ out = null
    /\ LET entry == ensureLearningFields([word |-> NotebookWords[1], learning |-> stored])
       IN  /\ notebook' = << [word |-> entry.word, learning |-> entry.learning[1]] >>
           /\ notebookFile' = notebook'
           /\ out' = << [source |-> "notebook", stored |-> stored,
                         value |-> entry.learning[1]] >>
    /\ UNCHANGED << clock, progress, pendingSelection, selectionData, learningSession,
                    cetCategory, timers, display, running, schedVars >>

\* a progress file that has the state stored for the first word of the list,
\* then the state getWordsForLearning and getLearningStats of cet.js read for it
LoadCET(category, stored) ==
    /\ out = null
    /\ progress' = [progress EXCEPT
                       ![category][toLowerCase(WordList(category)[1])] = stored]
    /\ out' = << [source |-> category, stored |-> stored,
                  value |-> ProgressLearning(progress'[category],
                                             WordList(category)[1])] >>
    /\ UNCHANGED << clock, notebook, notebookFile, pendingSelection, selectionData,
                    learningSession, cetCategory, timers, display, running, schedVars >>

LoadNext ==
    \/ \E stored \in StoredStates : LoadNotebook(stored)
    \/ \E c \in CATEGORIES, stored \in StoredStates : LoadCET(c, stored)

LoadSpec == LoadInit /\ [][LoadNext]_vars

\* a stored state that is absent or lacks one of the seven fields
MissingFields(stored) == stored = null \/ DOMAIN stored[1] # Fields

\* C20: a stored learning state that is absent, or present without some of the
\* seven fields, is replaced by the default learning state before selection,
\* statistics or grading read it, in the notebook and in the CET store.
C20_MalformedBecomesDefault ==
    out # null =>
        (MissingFields(out[1].stored) => out[1].value = DEFAULT_LEARNING)

\* C20 for a state that is entirely absent; a complete state is read as stored
C20_AbsentBecomesDefault ==
    out # null =>
        /\ out[1].stored = null => out[1].value = DEFAULT_LEARNING
        /\ ~MissingFields(out[1].stored) => out[1].value = out[1].stored[1]

(***************************************************************************)
(* Scheduler runs, continued: what grading does to level, counts and the   *)
(* two dates.                                                              *)
(***************************************************************************)
\* C22: a word that has been graded at least once never has level 0 again: a
\* Forgot grade yields interval 0 and level 1, and every state produced by one
\* or more grades has a level in 1..5.
C22_GradedNeverNew ==
    Called =>
        /\ sLearning.level \in 1..5
        /\ LastGrade = FORGOT => (sLearning.interval = 0 /\ sLearning.level = 1)

\* a word of level 2 or more forgotten: back to level 1, not to level 0
C22_Witness ==
    /\ FromDefault /\ Called /\ LastGrade = FORGOT
    /\ sPrior[1].level >= 2
    /\ sLearning.interval = 0
    /\ sLearning.level = 1

\* the states a word of the run has held: the one it started from, the
\* argument of the last grade and its result
HeldStates ==
    {sOrigin, sLearning} \cup (IF Called THEN {sPrior[1]} ELSE {})

\* C23 as stated: over the states a word can hold, the never-reviewed default
\* included, two states of equal interval have equal level.
C23_LevelFromIntervalAlone ==
    FromDefault =>
        \A a, b \in HeldStates : a.interval = b.interval => a.level = b.level

\* C23, amended: over the states produced by grading, level is a function of
\* interval alone, the level of the greatest threshold the interval reaches,
\* and is never 0; the default state has interval 0 and level 0.
C23_GradedLevelFromInterval ==
    FromDefault =>
        /\ sOrigin.interval = 0 /\ sOrigin.level = 0
        /\ \A a, b \in { s \in HeldStates : s.reviewCount > 0 } :
              /\ a.level = ThresholdLevel(a.interval)
              /\ a.level # 0
              /\ a.interval = b.interval => a.level = b.level

\* a forgotten word: interval 0 as the default state, but level 1
C23_Witness ==
    /\ FromDefault /\ Called
    /\ sLearning.interval = sOrigin.interval
    /\ sLearning.level = 1
    /\ sOrigin.level = 0

\* the grades of the run that are Good or better
GoodOrBetter == { i \in DOMAIN sGrades : sGrades[i] >= GOOD }

\* C24: after any sequence of grades applied from the default state,
\* correctCount is the number of grades of the sequence that are >= Good (3).
C24_CorrectCountsGoodOrBetter ==
    FromDefault => sLearning.correctCount = Cardinality(GoodOrBetter)

\* C24, amended: after any sequence of grades applied from the default state,
\* correctCount is the number of grades of the sequence other than Forgot, so
\* a Hard grade (2) counts, which the session's `correct` statistic leaves out.
C24_CorrectCountsNotForgot ==
    FromDefault =>
        sLearning.correctCount = Cardinality({ i \in DOMAIN sGrades : sGrades[i] # FORGOT })

\* a Hard grade in the sequence: counted by correctCount, not Good or better
C24_Witness ==
    /\ FromDefault
    /\ \E i \in DOMAIN sGrades : sGrades[i] = HARD
    /\ sLearning.correctCount > Cardinality(GoodOrBetter)

C29_IntervalAndEase ==
    Called =>
        LET prior == sPrior[1]
            lowered(by) == FSub(prior.easeFactor, Lit(by))
            floored(x) == IF FGeq(x, Lit(130)) THEN x ELSE Lit(130)
        IN  /\ LastGrade \in {HARD, GOOD, EASY} =>
                  sLearning.interval =
                      CASE prior.interval = 0 -> 1
                        [] prior.interval = 1 -> 6
                        [] OTHER -> MathRound(FMulInt(prior.interval, prior.easeFactor))
            /\ LastGrade = HARD => sLearning.easeFactor = floored(lowered(15))
            /\ LastGrade = EASY => sLearning.easeFactor = FAdd(prior.easeFactor, Lit(15))
            /\ LastGrade = GOOD => sLearning.easeFactor = prior.easeFactor
            /\ LastGrade = FORGOT => sLearning.easeFactor = floored(lowered(20))

\* a Hard grade on an interval that the lowered easeFactor would have rounded
\* to another number of days
C29_Witness ==
    /\ Called /\ LastGrade = HARD
    /\ sPrior[1].interval >= 2
    /\ sLearning.interval = MathRound(FMulInt(sPrior[1].interval, sPrior[1].easeFactor))
    /\ sLearning.interval # MathRound(FMulInt(sPrior[1].interval, sLearning.easeFactor))

(***************************************************************************)
(* Statistics runs: getLearningStats of the notebook and of cet.js called  *)
(* on a store.                                                             *)
(***************************************************************************)
\* the dueToday test of Notebook.getLearningStats: else-branch of level === 0
NotebookCountsDue(learning, now) ==
    /\ learning.level # 0
    /\ learning.nextReviewAt # null
    /\ getTime(learning.nextReviewAt) <= now

\* the dueToday test of cet.js getLearningStats: whatever the level
CETCountsDue(learning, now) ==
    /\ learning.nextReviewAt # null
    /\ getTime(learning.nextReviewAt) <= now

\* Notebook.getLearningStats(): every word has its learning fields
\* (ensureLearningFields adds nothing), and no mastered count is returned
NotebookGetLearningStats(words, now) ==
    LET learning(i) == words[i].learning
    IN  [total |-> Len(words),
         byLevel |-> [k \in 0..5 |->
                        Cardinality({ i \in DOMAIN words : learning(i).level = k })],
         dueToday |-> Cardinality({ i \in DOMAIN words :
                                      NotebookCountsDue(learning(i), now) }),
         newAvailable |-> Cardinality({ i \in DOMAIN words : learning(i).level = 0 })]

\* cet.js getLearningStats(category)
CETGetLearningStats(prog, category, now) ==
    IF category \notin CATEGORIES
    THEN [total |-> 0, byLevel |-> [k \in 0..5 |-> 0], dueToday |-> 0,
          newAvailable |-> 0, mastered |-> 0]
    ELSE LET list == WordList(category)
             learning(i) == ProgressLearning(prog[category], list[i])
         IN  [total |-> Len(list),
              byLevel |-> [k \in 0..5 |->
                             Cardinality({ i \in DOMAIN list : learning(i).level = k })],
              dueToday |-> Cardinality({ i \in DOMAIN list :
                                           CETCountsDue(learning(i), now) }),
              newAvailable |-> Cardinality({ i \in DOMAIN list : learning(i).level = 0 }),
              mastered |-> Cardinality({ i \in DOMAIN list : learning(i).level = 5 })]

\* the state after n more grades g, all given at time t
RECURSIVE Repeat(_, _, _, _)
Repeat(learning, g, n, t) ==
    IF n = 0 THEN learning
    ELSE Repeat(calculateNextReview(learning, g, t), g, n - 1, t)

\* Easy grades that take a new word to level 5
EasyToMaster == 4

\* the states of the selection runs and that of a mastered word
StatsStates == SelStates \cup { Repeat(DEFAULT_LEARNING, EASY, EasyToMaster, 0) }

StatsNotebooks ==
    UNION { { [i \in 1..n |-> [word |-> SelNames[i], learning |-> f[i]]] :
                f \in [1..n -> StatsStates] } : n \in 0..MaxSel }

StatsProgress(category) ==
    { p \in [AllKeys -> {null} \cup { << l >> : l \in StatsStates \ {DEFAULT_LEARNING} }] :
        \A k \in AllKeys :
            p[k] # null =>
                \E i \in DOMAIN WordList(category) : toLowerCase(WordList(category)[i]) = k }

StatsInit ==
    /\ clock \in 0..MaxTime
    /\ \/ notebook \in StatsNotebooks /\ progress = [c \in CATEGORIES |-> EmptyProgress]
       \/ notebook = << >>
            /\ progress \in [cet4 : StatsProgress("cet4"), cet6 : StatsProgress("cet6")]
    /\ notebookFile = notebook
    /\ pendingSelection = NONE
    /\ selectionData = null
    /\ learningSession = null
    /\ cetCategory = null
    /\ timers = << >>
    /\ display = NoDisplay
    /\ running = TRUE
    /\ SchedIdle
    /\ out = null

\* notebook.getLearningStats() called
StatsNotebook ==
    /\ out' = << [source |-> "notebook", value |-> NotebookGetLearningStats(notebook, clock)] >>
    /\ UNCHANGED << clock, replVars, schedVars >>

\* getLearningStats(category) of cet.js called
StatsCET(category) ==
    /\ out' = << [source |-> category,
                  value |-> CETGetLearningStats(progress, category, clock)] >>
    /\ UNCHANGED << clock, replVars, schedVars >>

StatsNext ==
    \/ StatsNotebook
    \/ \E c \in CATEGORIES : StatsCET(c)

StatsSpec == StatsInit /\ [][StatsNext]_vars

\* the words of the store the statistics were taken of whose state satisfies P
Counted(P(_)) == Cardinality({ i \in DOMAIN SourceLearnings : P(SourceLearnings[i]) })

\* C26: for both word sources the statistics query returns total = number of
\* words, byLevel[k] = number of words of level k for k in 0..5, dueToday =
\* number of words with nextReviewAt <= now, newAvailable = number of level 0
\* and mastered = number of level 5.
C26_StatsAsSpecified ==
    out # null =>
        LET value == out[1].value
        IN  /\ DOMAIN value = {"total", "byLevel", "dueToday", "newAvailable", "mastered"}
            /\ value.total = Len(SourceLearnings)
            /\ \A k \in 0..5 : value.byLevel[k] = Counted(LAMBDA l : l.level = k)
            /\ value.dueToday = Counted(LAMBDA l : CETCountsDue(l, clock))
            /\ value.newAvailable = Counted(LAMBDA l : l.level = 0)
            /\ value.mastered = Counted(LAMBDA l : l.level = 5)

\* C26 without the mastered count of the notebook: the other counts are as
\* stated for both sources, and mastered is as stated for a CET list
C26_AllButNotebookMastered ==
    out # null =>
        LET value == out[1].value
        IN  /\ value.total = Len(SourceLearnings)
            /\ \A k \in 0..5 : value.byLevel[k] = Counted(LAMBDA l : l.level = k)
            /\ value.dueToday = Counted(LAMBDA l : CETCountsDue(l, clock))
            /\ value.newAvailable = Counted(LAMBDA l : l.level = 0)
            /\ out[1].source # "notebook" =>
                  value.mastered = Counted(LAMBDA l : l.level = 5)

\* C26: the query modifies no stored state
C26_ReadOnly ==
    [][UNCHANGED << notebook, notebookFile, progress >>]_vars

\* the statistics of a notebook that has a mastered word
C26_FailingInput ==
    /\ out # null
    /\ out[1].source = "notebook"
    /\ \E i \in DOMAIN notebook : notebook[i].learning.level = 5
    /\ "mastered" \notin DOMAIN out[1].value

\* C30: in every LearningState reached from the default state by grades,
\* level = 0, reviewCount = 0, nextReviewAt null and lastReviewedAt null are
\* equivalent; so no word is both new and due, and the dueToday tests of the
\* notebook and of cet.js agree on it at every time.
C30_NewIffNeverReviewed ==
    FromDefault =>
        LET new == sLearning.level = 0
            times == 0..MaxTime \cup
                       (IF sLearning.nextReviewAt # null
                        THEN {getTime(sLearning.nextReviewAt)} ELSE {})
        IN  /\ new <=> sLearning.reviewCount = 0
            /\ new <=> sLearning.nextReviewAt = null
            /\ new <=> sLearning.lastReviewedAt = null
            /\ \A now \in times :
                  /\ ~(IsNew(sLearning) /\ CETCountsDue(sLearning, now))
                  /\ NotebookCountsDue(sLearning, now) <=> CETCountsDue(sLearning, now)

\* a graded word that is due: counted by both dueToday tests
C30_Witness ==
    /\ FromDefault /\ Called
    /\ sLearning.level # 0 /\ sLearning.reviewCount > 0
    /\ NotebookCountsDue(sLearning, clock)
    /\ CETCountsDue(sLearning, clock)

(***************************************************************************)
(* The REPL, continued: the delayed callbacks and the stored review counts. *)
(***************************************************************************)
\* a step in which a callback scheduled by setTimeout runs
CallbackRuns == Len(timers') < Len(timers)

\* C28: the delayed callback scheduled after a grade never runs against a
\* discarded session: whenever a callback fires, learningSession is non-null
\* and the callback does not throw.
C28_CallbackHasSession ==
    [][CallbackRuns => (learningSession # null /\ running')]_vars

\* a callback is pending after the session was discarded
C28_FailingInput ==
    /\ running
    /\ timers # << >>
    /\ learningSession = null

\* the reviewCount stored for a key of a progress file, 0 when it has no state
CETReviewCount(prog, category, key) ==
    IF prog[category][key] = null THEN 0 ELSE prog[category][key][1].reviewCount

\* C25: for every word key of a store, the stored reviewCount never decreases,
\* and each accepted grade raises the reviewCount stored for the graded word,
\* in the store the session's words come from, by exactly 1.
C25_ReviewCountCountsGrades ==
    [][/\ \A i \in DOMAIN notebook :
             notebook'[i].learning.reviewCount >= notebook[i].learning.reviewCount
       /\ \A c \in CATEGORIES, k \in AllKeys :
             CETReviewCount(progress', c, k) >= CETReviewCount(progress, c, k)
       /\ GradeAccepted =>
             LET s == learningSession[1]
                 w == s.words[s.currentIndex + 1]
             IN  IF w.ref > 0
                 THEN notebook'[w.ref].learning.reviewCount
                          = notebook[w.ref].learning.reviewCount + 1
                 ELSE LET c == OwnerCategory(w.word)
                          k == toLowerCase(w.word)
                      IN  CETReviewCount(progress', c, k)
                              = CETReviewCount(progress, c, k) + 1]_vars

\* a CET session over two entries that share the key "dog", both graded: two
\* grades recorded for the key, reviewCount 1 stored
C25_FailingInput ==
    /\ learningSession # null
    /\ pendingSelection = CET_SESSION_COMPLETE
    /\ timers = << >>
    /\ Len(learningSession[1].results) = 2
    /\ toLowerCase(learningSession[1].results[1].word)
          = toLowerCase(learningSession[1].results[2].word)
    /\ CETReviewCount(progress, "cet6", "dog") = 1

(***************************************************************************)
(* Paired runs: a notebook session and a CET session started on the same   *)
(* ordered word list with the same learning states, and given the same     *)
(* input lines, callbacks and disk.  The REPL's variables hold the REPL of *)
(* the notebook flow, out holds the record of the REPL of the CET flow.    *)
(***************************************************************************)
PairCategory == "cet4"
PairWords == WordList(PairCategory)

\* a REPL just started, with the notebook nb and the progress files prog
Started(nb, prog) ==
    [notebook |-> nb, notebookFile |-> nb, progress |-> prog,
     pendingSelection |-> NONE, selectionData |-> null, learningSession |-> null,
     cetCategory |-> null, timers |-> << >>, display |-> NoDisplay, running |-> TRUE,
     thrown |-> FALSE]

\* the lines given one after the other
RECURSIVE Feed(_, _, _)
Feed(r, inputs, now) ==
    IF inputs = << >> THEN r
    ELSE Feed(handleInput(r, Head(inputs), now, TRUE), Tail(inputs), now)

\* what rl.on('line') and the timer keep of a handler's outcome
Settled(r, fatal) ==
    IF r.thrown THEN [r EXCEPT !.running = ~fatal, !.thrown = FALSE] ELSE r

\* the REPL's fields are those of r
ReplIs(r) ==
    /\ notebook = r.notebook
    /\ notebookFile = r.notebookFile
    /\ progress = r.progress
    /\ pendingSelection = r.pendingSelection
    /\ selectionData = r.selectionData
    /\ learningSession = r.learningSession
    /\ cetCategory = r.cetCategory
    /\ timers = r.timers
    /\ display = r.display
    /\ running = r.running

\* the progress files in which the words of the list have the states f
PairProgress(f) ==
    [c \in CATEGORIES |->
        [k \in AllKeys |->
            IF /\ c = PairCategory
               /\ \E i \in DOMAIN PairWords :
                     toLowerCase(PairWords[i]) = k /\ f[i] # DEFAULT_LEARNING
            THEN << f[CHOOSE i \in DOMAIN PairWords : toLowerCase(PairWords[i]) = k] >>
            ELSE null]]

PairInit ==
    /\ clock \in 0..MaxTime
    /\ \E f \in [DOMAIN PairWords -> SelStates] :
          /\ ReplIs(Feed(Started([i \in DOMAIN PairWords |->
                                     [word |-> PairWords[i], learning |-> f[i]]],
                                 [c \in CATEGORIES |-> EmptyProgress]),
                         << "/learn", "s" >>, clock))
          /\ out = << Feed(Started(<< >>, PairProgress(f)),
                           << "/" \o PairCategory, "s" >>, clock) >>
    /\ SchedIdle

\* the same line given to both REPLs
PairLine(input, diskOk, fatal) ==
    /\ running /\ out[1].running
    /\ pendingSelection # NONE /\ out[1].pendingSelection # NONE
    /\ diskOk \/ (pendingSelection \in BackStates /\ IsGrade(parseInt(input)))
    /\ ~fatal \/ handleInput(Repl, input, clock, diskOk).thrown
              \/ handleInput(out[1], input, clock, diskOk).thrown
    /\ Becomes(Settled(handleInput(Repl, input, clock, diskOk), fatal))
    /\ out' = << Settled(handleInput(out[1], input, clock, diskOk), fatal) >>
    /\ UNCHANGED << clock, schedVars >>

\* the oldest callback of both REPLs runs
PairTimer ==
    /\ running /\ out[1].running
    /\ timers # << >> /\ out[1].timers # << >>
    /\ Becomes(Settled(showCurrentFlashcard([Repl EXCEPT !.timers = Tail(@)]), TRUE))
    /\ out' = << Settled(showCETCurrentFlashcard([out[1] EXCEPT !.timers = Tail(@)]),
                         TRUE) >>
    /\ UNCHANGED << clock, schedVars >>

\* Ctrl-C in both REPLs during a selection
PairSigint ==
    /\ running /\ out[1].running
    /\ pendingSelection # NONE /\ out[1].pendingSelection # NONE
    /\ Becomes(clearSelection(Repl))
    /\ out' = << clearSelection(out[1]) >>
    /\ UNCHANGED << clock, schedVars >>

PairNext ==
    \/ \E input \in Keys, diskOk \in BOOLEAN, fatal \in BOOLEAN :
          PairLine(input, diskOk, fatal)
    \/ PairTimer
    \/ PairSigint
    \/ Tick

PairSpec == PairInit /\ [][PairNext]_vars

\* the selection state of the CET flow that stands for one of the notebook flow
Corresponding(state) ==
    CASE state = FLASHCARD_FRONT -> CET_FLASHCARD_FRONT
      [] state = FLASHCARD_BACK -> CET_FLASHCARD_BACK
      [] state = SESSION_COMPLETE -> CET_SESSION_COMPLETE
      [] state = LEARN_MENU -> CET_MENU
      [] OTHER -> state

\* the two stores hold the same state for every word of the list
SameStores ==
    \A i \in DOMAIN PairWords :
        notebookFile[i].learning
            = ProgressLearning(out[1].progress[PairCategory], PairWords[i])

\* C21: the notebook flow and the CET flow, started on the same ordered word
\* list with the same learning states and given the same lines, are in
\* corresponding states, have built identical results and statistics, and
\* have persisted identical LearningStates for every word.
C21_SameStateMachine ==
    LET cet == out[1]
    IN  /\ cet.pendingSelection = Corresponding(pendingSelection)
        /\ cet.running = running
        /\ Len(cet.timers) = Len(timers)
        /\ cet.display = display
        /\ (cet.learningSession = null) <=> (learningSession = null)
        /\ learningSession # null /\ cet.learningSession # null =>
              LET n == learningSession[1]
                  c == cet.learningSession[1]
              IN  /\ c.results = n.results
                  /\ c.currentIndex = n.currentIndex
                  /\ getStats(c) = getStats(n)
                  /\ [i \in DOMAIN c.words |-> c.words[i].word]
                        = [i \in DOMAIN n.words |-> n.words[i].word]
        /\ SameStores

\* a grade whose write failed: recorded in the notebook session, not in the
\* CET session
C21_FailingInput ==
    /\ learningSession # null /\ out[1].learningSession # null
    /\ Len(learningSession[1].results) = 1
    /\ Len(out[1].learningSession[1].results) = 0
    /\ notebook # notebookFile

\* C21 when every write succeeds: a line, a callback or Ctrl-C given to both
\* flows in corresponding states leaves them in corresponding states
C21_SameWhenWritesSucceed ==
    [][(/\ C21_SameStateMachine
        /\ \/ \E input \in Keys, fatal \in BOOLEAN : PairLine(input, TRUE, fatal)
           \/ PairTimer
           \/ PairSigint
           \/ Tick)
          => C21_SameStateMachine']_vars

(***************************************************************************)
(* Session runs, continued: the log of results.                            *)
(***************************************************************************)
\* a step in which a result is appended or removed
ResultsChange ==
    Len(learningSession'[1].results) # Len(learningSession[1].results)

\* C31: each recordGrade appends exactly one entry {word, grade, wasRevealed}
\* to results, increments currentIndex and resets revealed, leaving earlier
\* entries and the words as they were; so in every session state currentIndex
\* = results.length, 0 <= currentIndex <= words.length and results[i].word is
\* the word of words[i].
C31_ResultsLog ==
    /\ [](LET s == learningSession[1]
          IN  /\ s.currentIndex = Len(s.results)
              /\ 0 <= s.currentIndex /\ s.currentIndex <= Len(s.words)
              /\ \A i \in DOMAIN s.results : s.results[i].word = s.words[i].word)
    /\ [][ResultsChange =>
            LET s == learningSession[1]
                t == learningSession'[1]
            IN  /\ \E g \in GradeSet :
                      t.results = Append(s.results,
                                         [word |-> s.words[s.currentIndex + 1].word,
                                          grade |-> g,
                                          wasRevealed |-> s.revealed])
                /\ t.currentIndex = s.currentIndex + 1
                /\ t.revealed = FALSE
                /\ t.words = s.words]_vars

\* a revealed card graded after an unrevealed one, in a session still going
C31_Witness ==
    LET s == learningSession[1]
    IN  /\ Len(s.words) = 3
        /\ Len(s.results) = 2
        /\ ~s.results[1].wasRevealed /\ s.results[2].wasRevealed
        /\ s.results[1].grade # s.results[2].grade
        /\ s.results[1].word # s.results[2].word
        /\ ~s.revealed

(***************************************************************************)
(* Scheduler runs, continued: growth of the interval and the two dates.    *)
(***************************************************************************)
\* C33: in every state reached from the default state, a grade of 2, 3 or 4
\* produces an interval strictly greater than the prior interval and a level
\* not below the prior level; only Forgot can lower interval or level.
C33_SuccessGrows ==
    FromDefault /\ Called =>
        LET prior == sPrior[1]
        IN  /\ LastGrade \in {HARD, GOOD, EASY} =>
                  /\ sLearning.interval > prior.interval
                  /\ sLearning.level >= prior.level
            /\ (sLearning.interval < prior.interval \/ sLearning.level < prior.level) =>
                  LastGrade = FORGOT

\* a Hard grade on a six-day interval with a lowered easeFactor: the interval
\* and the level still grow
C33_Witness ==
    /\ FromDefault /\ Called /\ LastGrade = HARD
    /\ sPrior[1].interval = 6
    /\ ~FGeq(sPrior[1].easeFactor, Lit(250))
    /\ sLearning.interval > 6
    /\ sLearning.level > sPrior[1].level

\* C35: calculateNextReview sets lastReviewedAt to the current time and
\* nextReviewAt to that time plus interval days, for every prior state and
\* grade; so nextReviewAt >= lastReviewedAt, with equality exactly when
\* interval = 0.
C35_TwoDates ==
    /\ [](Called =>
            /\ getTime(sLearning.nextReviewAt) >= getTime(sLearning.lastReviewedAt)
            /\ (sLearning.nextReviewAt = sLearning.lastReviewedAt)
                  <=> (sLearning.interval = 0))
    /\ [][sGrades' # sGrades =>
            /\ sLearning'.lastReviewedAt = toISOString(clock)
            /\ sLearning'.nextReviewAt
                  = toISOString(clock + sLearning'.interval * DAY)]_vars

\* a word reviewed a day after its last review and put off by six days
C35_Witness ==
    /\ Called
    /\ sPrior[1].lastReviewedAt = toISOString(0)
    /\ sLearning.lastReviewedAt = toISOString(1)
    /\ sLearning.interval = 6
    /\ sLearning.nextReviewAt = toISOString(1 + 6 * DAY)

(***************************************************************************)
(* Review runs: one word of a store graded as the back-of-card handlers    *)
(* grade it (calculateNextReview of its stored state, written back to the  *)
(* store), and getWordsForLearning called on the store at any time.        *)
(***************************************************************************)
ReviewWord == "bank"
ReviewCategory == "cet4"

\* the states the word may have in the store before the run
ReviewPriors ==
    {DEFAULT_LEARNING}
        \cup { p \in PriorStates : /\ p.level = 5 /\ p.correctCount = 2
                                   /\ p.easeFactor \in {Lit(130), Lit(250)} }

\* the run is on the notebook (else on the category's progress file)
OnNotebook == notebook # << >>

\* the state the store holds for the word
ReviewLearning ==
    IF OnNotebook THEN notebook[FindWord(notebook, ReviewWord)].learning
    ELSE ProgressLearning(progress[ReviewCategory], ReviewWord)

ReviewInit ==
    /\ clock = 0
    /\ \E p \in ReviewPriors :
          /\ \/ /\ notebook = << [word |-> ReviewWord, learning |-> p],
                                 [word |-> "cat", learning |-> DEFAULT_LEARNING] >>
                /\ progress = [c \in CATEGORIES |-> EmptyProgress]
             \/ /\ notebook = << >>
                /\ progress = [c \in CATEGORIES |->
                                 IF c = ReviewCategory /\ p # DEFAULT_LEARNING
                                 THEN [EmptyProgress EXCEPT ![ReviewWord] = << p >>]
                                 ELSE EmptyProgress]
          /\ sLearning = p
          /\ sOrigin = p
    /\ notebookFile = notebook
    /\ pendingSelection = NONE
    /\ selectionData = null
    /\ learningSession = null
    /\ cetCategory = null
    /\ timers = << >>
    /\ display = NoDisplay
    /\ running = TRUE
    /\ sPrior = null
    /\ sGrades = << >>
    /\ out = null

\* the word graded g: calculateNextReview(word.learning, grade), then
\* updateWordLearning or updateWordLearningState
ReviewGrade(g) ==
    /\ Len(sGrades) < MaxPriorGrades
    /\ LET next == calculateNextReview(ReviewLearning, g, clock)
       IN  /\ Becomes(IF OnNotebook
                      THEN updateWordLearning(Repl, ReviewWord, next, TRUE)
                      ELSE updateWordLearningState(Repl, ReviewCategory, ReviewWord,
                                                   next, TRUE))
           /\ sLearning' = next
    /\ sPrior' = << ReviewLearning >>
    /\ sGrades' = Append(sGrades, g)
    /\ UNCHANGED << clock, sOrigin, out >>

\* getWordsForLearning(maxNewWords) called on the store
ReviewSelect(maxNewWords) ==
    /\ out' = << [source |-> IF OnNotebook THEN "notebook" ELSE ReviewCategory,
                  maxNewWords |-> maxNewWords,
                  value |-> IF OnNotebook
                            THEN NotebookGetWordsForLearning(notebook, maxNewWords, clock)
                            ELSE CETGetWordsForLearning(progress, ReviewCategory,
                                                        maxNewWords, clock)] >>
    /\ UNCHANGED << clock, replVars, schedVars >>

ReviewNext ==
    \/ \E g \in GradeSet : ReviewGrade(g)
    \/ \E m \in 0..MaxCap : ReviewSelect(m)
    \/ Tick

ReviewSpec == ReviewInit /\ [][ReviewNext]_vars

\* the words of a selection
Picked(selection) == { selection[i].word : i \in DOMAIN selection }

\* C34: a word graded Forgot gets nextReviewAt equal to its grading time, and
\* every selection made at or after that time selects it as a due word (the
\* new words are still selected up to the cap); a word graded Hard, Good or
\* Easy is selected by no selection made less than one day after its grading.
C34_DueAfterGrade ==
    [][(out' # out /\ sGrades # << >>) =>
          LET l == ReviewLearning
              gradedAt == getTime(l.lastReviewedAt)
              picked == Picked(out'[1].value)
          IN  /\ LastGrade = FORGOT =>
                    /\ l.nextReviewAt = toISOString(gradedAt)
                    /\ clock >= gradedAt => /\ ReviewWord \in picked
                                            /\ out'[1].value[1].word = ReviewWord
                                            /\ ("cat" \in picked) <=> (out'[1].maxNewWords >= 1)
              /\ (LastGrade # FORGOT /\ clock < gradedAt + DAY) =>
                    ReviewWord \notin picked]_vars

\* a new word graded Good and then Forgot at the same time, and selected with
\* a cap of no new words
C34_Witness ==
    /\ sOrigin = DEFAULT_LEARNING
    /\ sGrades = << GOOD, FORGOT >>
    /\ clock = 0
    /\ out # null
    /\ out[1].maxNewWords = 0
    /\ Picked(out[1].value) = {ReviewWord}

(***************************************************************************)
(* Statistics and selection of one store: getLearningStats and             *)
(* getWordsForLearning called one after the other on the same store at the *)
(* same time.                                                              *)
(***************************************************************************)
StatsSelNext ==
    \/ StatsNext
    \/ SelNext

StatsSelSpec == StatsInit /\ [][StatsSelNext]_vars

\* the record of a getLearningStats call, of a getWordsForLearning call
IsStats(call) == "maxNewWords" \notin DOMAIN call
IsSelection(call) == "maxNewWords" \in DOMAIN call

\* C37: for the same store contents and the same time, in the notebook and in
\* a CET store, the byLevel buckets sum to total, and the selection returned
\* by getWordsForLearning(maxNewWords) has dueToday + min(newAvailable,
\* maxNewWords) words.
C37_StatsMatchSelection ==
    /\ [](out # null /\ IsStats(out[1]) =>
            LET b == out[1].value.byLevel
            IN  b[0] + b[1] + b[2] + b[3] + b[4] + b[5] = out[1].value.total)
    /\ [][(/\ out # null /\ IsStats(out[1])
           /\ out' # null /\ IsSelection(out'[1])
           /\ out'[1].source = out[1].source) =>
            Len(out'[1].value)
                = out[1].value.dueToday
                    + Min(out[1].value.newAvailable, out'[1].maxNewWords)]_vars

\* a notebook of a due word and two new words, selected with a cap of one
\* new word
C37_Witness ==
    /\ out # null /\ IsSelection(out[1])
    /\ out[1].source = "notebook"
    /\ out[1].maxNewWords = 1
    /\ Len(out[1].value) = 2
    /\ NotebookGetLearningStats(notebook, clock).dueToday = 1
    /\ NotebookGetLearningStats(notebook, clock).newAvailable = 2

(***************************************************************************)
(* The REPL, continued: the reveal step and the show-examples input.       *)
(***************************************************************************)
\* the empty line given on the front of a card
RevealStep ==
    /\ pendingSelection \in FrontStates
    /\ \E diskOk \in BOOLEAN, fatal \in BOOLEAN : Line("", diskOk, fatal)

\* the line "e" given on the back of a card
ExamplesStep ==
    /\ pendingSelection \in BackStates
    /\ \E diskOk \in BOOLEAN, fatal \in BOOLEAN : Line("e", diskOk, fatal)

\* C36, the reveal step: it sets the session's revealed flag and takes the
\* REPL from the front state to the back state; currentIndex, results, words
\* and every stored LearningState are unchanged.
C36_RevealFrame ==
    [][RevealStep =>
          /\ learningSession # null
          /\ learningSession' = << reveal(learningSession[1]) >>
          /\ pendingSelection' = (IF pendingSelection = FLASHCARD_FRONT
                                  THEN FLASHCARD_BACK ELSE CET_FLASHCARD_BACK)
          /\ UNCHANGED << notebook, notebookFile, progress, selectionData,
                          cetCategory, timers, running >>]_vars

\* C36: as C36_RevealFrame, and the show-examples input on the back of a card
\* changes nothing of the session, the stores and the REPL.
C36_RevealAndExamplesFrame ==
    [][/\ RevealStep =>
             /\ learningSession # null
             /\ learningSession' = << reveal(learningSession[1]) >>
             /\ pendingSelection' = (IF pendingSelection = FLASHCARD_FRONT
                                     THEN FLASHCARD_BACK ELSE CET_FLASHCARD_BACK)
             /\ UNCHANGED << notebook, notebookFile, progress, selectionData,
                             cetCategory, timers, running >>
       /\ ExamplesStep =>
             UNCHANGED << notebook, notebookFile, progress, pendingSelection,
                          selectionData, learningSession, cetCategory, timers,
                          running >>]_vars

\* the back of a card still the state after the last card was graded: "e"
\* finds no current word
C36_FailingInput ==
    /\ running
    /\ pendingSelection \in BackStates
    /\ learningSession # null
    /\ currentWord(learningSession[1]) = null

(***************************************************************************)
(* Update runs: Notebook.updateWordLearning called on a notebook, with the *)
(* value it returns.                                                       *)
(***************************************************************************)
\* what Notebook.save returns: true when writeFileSync did not throw
saveReturns(diskOk) == diskOk

\* what Notebook.updateWordLearning returns: this.save() when the word is
\* found, false when it is not
updateWordLearningReturns(r, wordText, diskOk) ==
    IF FindWord(r.notebook, wordText) > 0 THEN saveReturns(diskOk) ELSE FALSE

\* the words a caller names: saved ones, in another case, and one not saved
UpdateNames == {"apple", "bank", "cat"}

\* notebook.updateWordLearning(wordText, learningState) called
UpdateWordLearning(wordText, learningState, diskOk) ==
    /\ Becomes(updateWordLearning(Repl, wordText, learningState, diskOk))
    /\ out' = << [wordText |-> wordText, learningState |-> learningState,
                  before |-> notebook,
                  returned |-> updateWordLearningReturns(Repl, wordText, diskOk)] >>
    /\ UNCHANGED << clock, schedVars >>

UpdateNext ==
    \E wordText \in UpdateNames, learningState \in SelStates, diskOk \in BOOLEAN :
        UpdateWordLearning(wordText, learningState, diskOk)

UpdateSpec == Init /\ [][UpdateNext]_vars

\* the LearningState of every word of the notebook is that of before the call
SameLearning ==
    /\ Len(notebook) = Len(out[1].before)
    /\ \A i \in DOMAIN notebook : notebook[i].learning = out[1].before[i].learning

\* C38: whenever Notebook.updateWordLearning returns false (word not in the
\* notebook, or saving failed) the in-memory LearningState of every word is
\* the same as before the call, and whenever it returns true the named word
\* holds the given state.
C38_FalseMeansUnchanged ==
    out # null =>
        /\ ~out[1].returned => SameLearning
        /\ out[1].returned =>
              notebook[FindWord(notebook, out[1].wordText)].learning
                  = out[1].learningState

\* C38 without the failed save: a call that returns true leaves the named
\* word with the given state in memory and in the file, and a call naming a
\* word that is not in the notebook returns false and changes nothing.
C38_TrueMeansStored ==
    out # null =>
        /\ out[1].returned =>
              /\ notebook[FindWord(notebook, out[1].wordText)].learning
                    = out[1].learningState
              /\ notebookFile = notebook
        /\ FindWord(out[1].before, out[1].wordText) = 0 =>
              ~out[1].returned /\ SameLearning

\* a call that returned false and changed the state of the named word
C38_FailingInput ==
    /\ out # null
    /\ ~out[1].returned
    /\ FindWord(notebook, out[1].wordText) > 0
    /\ notebook[FindWord(notebook, out[1].wordText)].learning = out[1].learningState
    /\ out[1].before[FindWord(notebook, out[1].wordText)].learning # out[1].learningState
    /\ notebookFile # notebook

(***************************************************************************)
(* Drill runs: a user who starts a session and then only reveals cards and *)
(* grades them, while writes may fail and callbacks fire at their time.    *)
(* The user goes on revealing and grading, a write succeeds in the end and *)
(* every pending callback fires.                                           *)
(***************************************************************************)
StartLines == {"/learn", "/cet4", "/cet6", "s"}

\* the lines that lead to a session, given before anything was reviewed
UserStart ==
    /\ pendingSelection \in {NONE, LEARN_MENU, CET_MENU}
    /\ TotalReviews = 0
    /\ \E input \in StartLines : Line(input, TRUE, FALSE)

\* Enter on the front of a card
UserReveal ==
    /\ pendingSelection \in FrontStates
    /\ Line("", TRUE, FALSE)

\* a grade on the back of a card
UserGrade(diskOk, fatal) ==
    /\ pendingSelection \in BackStates
    /\ \E input \in GradeLines : Line(input, diskOk, fatal)

DrillNext ==
    \/ UserStart
    \/ UserReveal
    \/ \E diskOk \in BOOLEAN, fatal \in BOOLEAN : UserGrade(diskOk, fatal)
    \/ TimerFire
    \/ Tick

DrillSpec ==
    /\ Init
    /\ [][DrillNext]_vars
    /\ WF_vars(TimerFire)
    /\ SF_vars(UserReveal)
    /\ SF_vars(UserGrade(TRUE, FALSE))

\* a session has been started and is on a card
SessionStarted == learningSession # null /\ pendingSelection \in FlashcardStates

SessionCompleted == pendingSelection \in CompleteStates

\* in a session-complete state every word of the session has been graded once
\* and the statistics shown say so
AllGradedWhenComplete ==
    SessionCompleted =>
        /\ learningSession # null
        /\ Len(learningSession[1].words) >= 1
        /\ Len(learningSession[1].results) = Len(learningSession[1].words)
        /\ getStats(learningSession[1]).reviewed = Len(learningSession[1].words)
        /\ display.stats = << getStats(learningSession[1]) >>

\* C32: a session started with n >= 1 words is in SESSION_COMPLETE after
\* exactly n accepted grades and not before, with reviewed = n; and if the
\* user keeps revealing and grading and pending callbacks fire, every started
\* session eventually reaches SESSION_COMPLETE.
C32_SessionCompletes ==
    /\ []AllGradedWhenComplete
    /\ SessionStarted ~> SessionCompleted

\* C32, the part that holds: completion means n grades, and a started session
\* reaches SESSION_COMPLETE unless an exception has ended the process.
C32_CompletesUnlessEnded ==
    /\ []AllGradedWhenComplete
    /\ SessionStarted ~> (SessionCompleted \/ ~running)

\* a session on a card in a process that an exception has ended
C32_FailingInput ==
    /\ ~running
    /\ SessionStarted
    /\ ~isComplete(learningSession[1])
====
